---- MODULE Spec2Model ----
(***************************************************************************)
(* A model of Vanilla Studio IDE (src/main.py): the editing aids of        *)
(* EditorTab (auto-pair, backspace, auto-indent, comment toggle), its      *)
(* syntax highlighting and the debounce of it, the save path of a tab and  *)
(* the run dispatcher of VanillaStudioApp.                                 *)
(*                                                                         *)
(* A text widget's content is a sequence of one-character strings, without *)
(* the newline Tk keeps after the last line.  A position in it is an       *)
(* offset 0..Len(text); Tk's "line.column" indices are computed from it    *)
(* the way Tk does.                                                        *)
(***************************************************************************)
EXTENDS Integers, Sequences, FiniteSets, TLC

VARIABLES
    language,   \* EditorTab.language of the tab being edited
    buf,        \* EditorTab.text: the characters of the buffer
    insert,     \* the "insert" mark (the cursor), an offset into buf
    sel,        \* the "sel" tag: <<>> when nothing is selected, else <<first, last>>
    event,      \* the last event the tab handled, and how many it has handled
    pre,        \* buf, insert and sel as they were when that event arrived
    orig        \* buf, insert and sel as they were before the first event

VARIABLES
    usePygments, \* USE_PYGMENTS: whether the pygments import succeeded
    lexFault,    \* how many tokens lex() yields before it raises, -1 for never
    tagged,      \* the syntax tags on the text: <<tag, offset>> for each tagged character
    spans,       \* the ranges the regex fallback tagged in the last pass, in order
    hlEvent,     \* the last thing that happened to the highlighting
    lastPass     \* the text of the pass before the last one and the tags it left

hlVars == <<usePygments, lexFault, tagged, spans, hlEvent, lastPass>>

VARIABLES
    afterId,    \* EditorTab._highlight_after_id, 0 for None
    timers,     \* the callbacks Tk has pending for highlight_syntax: [id, due]
    nextId,     \* the number of the next after-id Tk hands out
    clock,      \* the time, in units of 50 ms
    strokes,    \* the times of the key releases so far, in order
    passLog     \* the passes run so far, in order: when, after how many key releases, over which text

timerVars == <<afterId, timers, nextId, clock, strokes, passLog>>

VARIABLES
    workers,    \* the run workers started so far, in order: where each is and what it did
    artifact,   \* the worker whose compile step wrote the derived artifact last, 0 for none
    stopEvent,  \* _stop_event: whether the stop flag is set
    runs        \* how many times Run was invoked

overlapVars == <<workers, artifact, stopEvent, runs>>

VARIABLES
    widget,     \* the state option of the console widget: "normal" or "disabled"
    appenders   \* the threads inside append_console: the texts each appends and where it is

appendVars == <<widget, appenders>>

VARIABLES
    idxText,    \* the text _index_from_pos is given
    idxPos,     \* the offset it is given
    idxOut      \* what it returned, <<0, 0>> before the call

indexVars == <<idxText, idxPos, idxOut>>

asideVars == <<overlapVars, appendVars, indexVars>>

\* What the file operations and the run worker leave alone.
editVars == <<buf, insert, sel, event, pre, orig, hlVars, timerVars, asideVars>>

VARIABLES
    runFile,    \* tab.filepath.name of the file being run
    hasCsproj,  \* whether project.csproj exists beside it
    pathHas,    \* executables found on PATH so far
    pathLacks,  \* executables found missing from PATH so far
    runPc,      \* "idle", or where the run worker is: "running", "finally", "done"
    runStep,    \* the step of the language's branch the worker is at
    probes,     \* the which() calls of the run, in order: [tool, found]
    spawns,     \* the safe_run_subprocess calls of the run, in order
    browser,    \* the webbrowser.open calls of the run, in order
    console,    \* what the run has appended to the console, in order
    status      \* status_var

runVars == <<runFile, hasCsproj, pathHas, pathLacks, runPc, runStep,
             probes, spawns, browser, console, status>>

VARIABLES
    langVar,    \* lang_var, the text of the toolbar's language selector
    filepath,   \* EditorTab.filepath of the current tab, <<>> for None
    title,      \* EditorTab.title of the current tab
    fileEvent,  \* the last file operation and how it ended
    fileOps,    \* how many tabs were made and saves tried so far
    written     \* the path the tab's text was last read from or written to, <<>> for none

fileVars == <<langVar, filepath, title, fileEvent, fileOps, written>>

vars == <<language, editVars, runVars, fileVars>>

(***************************************************************************)
(* Bounds of the model.                                                    *)
(***************************************************************************)
MaxKeyLen == 3      \* longest buffer a key is typed into
MaxBsLen == 4       \* longest buffer Backspace is pressed in
MaxRetLen == 4      \* longest buffer Return is pressed in
MaxCmtLen == 3      \* longest buffer a comment toggle starts from
MaxEvents == 1      \* keys, Backspaces or Returns one tab receives
MaxToggles == 2     \* comment toggles one tab receives
MaxFileOps == 3     \* New, Open, Save and Save As operations in one session

(***************************************************************************)
(* Texts and Tk text indices.                                              *)
(***************************************************************************)
NL == "\n"

Min(a, b) == IF a <= b THEN a ELSE b

Max(a, b) == IF a >= b THEN a ELSE b

\* All texts over the characters cs, up to n characters long.
TextsUpTo(cs, n) == UNION {[1..k -> cs] : k \in 0..n}

\* text[a+1..b], the characters between offsets a and b (Tk: get a b).
Get(text, a, b) == SubSeq(text, a + 1, b)

\* str.count("\n") + 1 of the first p characters: the Tk line of offset p.
LineOf(text, p) == 1 + Cardinality({i \in 1..p : text[i] = NL})

NumLines(text) == LineOf(text, Len(text))

\* Offset of "l.0".  A line past the last one is the end of the text.
LineStart(text, l) ==
    IF l <= 1 THEN 0
    ELSE IF l > NumLines(text) THEN Len(text)
    ELSE CHOOSE i \in 1..Len(text) : text[i] = NL /\ LineOf(text, i) = l

\* Offset of "l.end": just before the newline that ends line l.
LineEnd(text, l) ==
    IF l >= NumLines(text) THEN Len(text)
    ELSE (CHOOSE i \in 1..Len(text) : text[i] = NL /\ LineOf(text, i) = l + 1) - 1

\* The column of offset p within its line.
ColOf(text, p) == p - LineStart(text, LineOf(text, p))

\* Offset of the Tk index "l.c"; Tk clamps a column past the end of the line.
Offset(text, l, c) ==
    Min(LineStart(text, l) + Max(c, 0), LineEnd(text, Max(l, 1)))

\* The characters of line l ("l.0" to "l.end").
LineText(text, l) == Get(text, LineStart(text, l), LineEnd(text, l))

(***************************************************************************)
(* The editing state of a tab and Tk's insert and delete on it.  The       *)
(* insert mark has right gravity; the sel tag stays on the characters that *)
(* carry it, and inserted text is tagged only strictly inside the range.   *)
(***************************************************************************)
NoSel == <<>>

HasSel(st) == st.sel # NoSel

EditState(b, i, s) == [buf |-> b, insert |-> i, sel |-> s]

NormSel(s, e) == IF s < e THEN <<s, e>> ELSE NoSel

\* text.insert(p, str)
TextInsert(st, p, str) ==
    LET n == Len(str) IN
    [buf    |-> Get(st.buf, 0, p) \o str \o Get(st.buf, p, Len(st.buf)),
     insert |-> IF st.insert >= p THEN st.insert + n ELSE st.insert,
     sel    |-> IF HasSel(st)
                THEN <<IF st.sel[1] >= p THEN st.sel[1] + n ELSE st.sel[1],
                       IF st.sel[2] > p THEN st.sel[2] + n ELSE st.sel[2]>>
                ELSE NoSel]

\* Where offset m ends up when the characters between a and b are deleted.
AfterDelete(m, a, b) == IF m >= b THEN m - (b - a) ELSE IF m > a THEN a ELSE m

\* text.delete(a, b)
TextDelete(st, a, b) ==
    IF a >= b THEN st
    ELSE [buf    |-> Get(st.buf, 0, a) \o Get(st.buf, b, Len(st.buf)),
          insert |-> AfterDelete(st.insert, a, b),
          sel    |-> IF HasSel(st)
                     THEN NormSel(AfterDelete(st.sel[1], a, b),
                                  AfterDelete(st.sel[2], a, b))
                     ELSE NoSel]

\* text.mark_set("insert", p)
MarkSetInsert(st, p) == [st EXCEPT !.insert = Max(0, Min(p, Len(st.buf)))]

\* text.tag_remove("sel", "1.0", "end") then text.tag_add("sel", a, b)
SelectRange(st, a, b) == [st EXCEPT !.sel = NormSel(a, b)]

\* Every selection a user can leave on a text by dragging: none, or a
\* non-empty range of it.
Selections(text) ==
    {NoSel} \cup {p \in (0..Len(text)) \X (0..Len(text)) : p[1] < p[2]}

Cur == EditState(buf, insert, sel)

NoEvent == [op |-> "none", ch |-> "", ret |-> "none", n |-> 0]

EmptyState == EditState(<<>>, 0, NoSel)


(***************************************************************************)
(* Auto-pairs: EditorTab._PAIRS and EditorTab._on_keypress.                *)
(***************************************************************************)
\* The grave accent (U+0060), which a TLA+ string cannot hold: it is written
\* as this token wherever the source has the character.
Backtick == "bq"

Openers == {"(", "[", "{", "\"", "'", Backtick}

PAIRS == [c \in Openers |->
            CASE c = "(" -> ")"
              [] c = "[" -> "]"
              [] c = "{" -> "}"
              [] OTHER   -> c]

PairValues == {PAIRS[c] : c \in Openers}

\* text.get("insert", "insert+1c"): at the end of the buffer Tk returns the
\* newline it keeps after the last line.
CharAfterInsert(st) ==
    IF st.insert < Len(st.buf) THEN st.buf[st.insert + 1] ELSE NL

\* PairOpener without its mark_set("insert", "insert-1c"): the cursor is left
\* after the inserted pair.
PairOpener_CursorAfterPair(st, ch) ==
    LET closing == PAIRS[ch] IN
    IF HasSel(st)
    THEN LET sel_start == st.sel[1]
             sel_text  == Get(st.buf, st.sel[1], st.sel[2])
             deleted   == TextDelete(st, st.sel[1], st.sel[2])
             wrapped   == TextInsert(deleted, sel_start,
                                     <<ch>> \o sel_text \o <<closing>>)
             selected  == SelectRange(wrapped, sel_start + 1,
                                      sel_start + 1 + Len(sel_text))
         IN  MarkSetInsert(selected, sel_start + 1 + Len(sel_text))
    ELSE TextInsert(st, st.insert, <<ch, closing>>)

\* The branch of _on_keypress for a typed opener.
PairOpener(st, ch) ==
    LET closing == PAIRS[ch] IN
    IF HasSel(st)
    THEN LET sel_start == st.sel[1]
             sel_text  == Get(st.buf, st.sel[1], st.sel[2])
             deleted   == TextDelete(st, st.sel[1], st.sel[2])
             wrapped   == TextInsert(deleted, sel_start,
                                     <<ch>> \o sel_text \o <<closing>>)
             selected  == SelectRange(wrapped, sel_start + 1,
                                      sel_start + 1 + Len(sel_text))
         IN  MarkSetInsert(selected, sel_start + 1 + Len(sel_text))
    ELSE LET paired == TextInsert(st, st.insert, <<ch, closing>>)
         IN  MarkSetInsert(paired, paired.insert - 1)

\* Whether _on_keypress takes the typed character for a closer to skip.
SkipsCloser(st, ch) == ch \in PairValues /\ CharAfterInsert(st) = ch

\* _on_keypress: the state it leaves and what it returns ("break" stops
\* Tk's own handling of the key, "default" lets it run).
OnKeypress(st, ch) ==
    IF ch \in DOMAIN PAIRS
    THEN [st |-> PairOpener(st, ch), ret |-> "break"]
    ELSE IF SkipsCloser(st, ch)
    THEN [st |-> MarkSetInsert(st, st.insert + 1), ret |-> "break"]
    ELSE [st |-> st, ret |-> "default"]

\* Whether the insert mark lies in the selection (Tk's TextCursorInSelection).
CursorInSelection(st) ==
    HasSel(st) /\ st.sel[1] <= st.insert /\ st.insert <= st.sel[2]

\* Tk's own handling of a printable key, which runs when _on_keypress returns
\* None: a selection under the cursor is replaced by the character.
DefaultInsert(st, ch) ==
    LET cleared == IF CursorInSelection(st)
                   THEN TextDelete(st, st.sel[1], st.sel[2]) ELSE st
    IN  TextInsert(cleared, cleared.insert, <<ch>>)

\* A key press as the tab sees it: the handler, then Tk's default if allowed.
KeyResult(st, ch) ==
    LET r == OnKeypress(st, ch) IN
    IF r.ret = "break" THEN r ELSE [st |-> DefaultInsert(st, ch), ret |-> "default"]

(***************************************************************************)
(* Backspace: EditorTab.on_backspace.                                      *)
(***************************************************************************)
EmptyPairs == {<<"(", ")">>, <<"[", "]">>, <<"{", "}">>,
               <<"'", "'">>, <<"\"", "\"">>, <<Backtick, Backtick>>}

IndentUnit == <<" ", " ", " ", " ">>

\* text.get("line.(col-n)", "line.col") for the insert position line.col
BeforeCursor(st, n) ==
    LET line == LineOf(st.buf, st.insert)
        col  == ColOf(st.buf, st.insert)
    IN  Get(st.buf, Offset(st.buf, line, col - n), Offset(st.buf, line, col))

\* DeletesPair with col > 2 for col >= 2.
DeletesPair_ColOffByOne(st) ==
    ColOf(st.buf, st.insert) > 2 /\ BeforeCursor(st, 2) \in EmptyPairs

\* Whether on_backspace deletes an empty pair.
DeletesPair(st) ==
    ColOf(st.buf, st.insert) >= 2 /\ BeforeCursor(st, 2) \in EmptyPairs

\* Whether on_backspace deletes an indent unit (reached when no pair is deleted).
DeletesIndent(st) ==
    ColOf(st.buf, st.insert) >= 4 /\ BeforeCursor(st, 4) = IndentUnit

OnBackspace(st) ==
    LET line == LineOf(st.buf, st.insert)
        col  == ColOf(st.buf, st.insert)
    IN  IF DeletesPair(st)
        THEN [st  |-> TextDelete(st, Offset(st.buf, line, col - 2),
                                     Offset(st.buf, line, col)),
              ret |-> "break"]
        ELSE IF DeletesIndent(st)
        THEN [st  |-> TextDelete(st, Offset(st.buf, line, col - 4),
                                     Offset(st.buf, line, col)),
              ret |-> "break"]
        ELSE [st |-> st, ret |-> "default"]

\* Tk's own BackSpace, which runs when on_backspace returns None: it deletes
\* the selection under the cursor, else the character before the cursor.
DefaultBackspace(st) ==
    IF CursorInSelection(st) THEN TextDelete(st, st.sel[1], st.sel[2])
    ELSE IF st.insert > 0 THEN TextDelete(st, st.insert - 1, st.insert)
    ELSE st

BackspaceResult(st) ==
    LET r == OnBackspace(st) IN
    IF r.ret = "break" THEN r ELSE [st |-> DefaultBackspace(st), ret |-> "default"]

(***************************************************************************)
(* Auto-indent: EditorTab.on_return_key.                                   *)
(***************************************************************************)
\* The characters Python's \s, str.strip and str.rstrip take for whitespace.
IsSpace(c) == c \in {" ", "\t", NL}

\* re.match(r"^(\s*)", text).group(1): the leading whitespace of text.
LeadingSpace(text) ==
    LET n == IF \A i \in 1..Len(text) : IsSpace(text[i]) THEN Len(text)
             ELSE (CHOOSE i \in 1..Len(text) :
                      /\ ~IsSpace(text[i])
                      /\ \A j \in 1..(i - 1) : IsSpace(text[j])) - 1
    IN  SubSeq(text, 1, n)

\* text.rstrip()
RStrip(text) ==
    LET n == IF \A i \in 1..Len(text) : IsSpace(text[i]) THEN 0
             ELSE CHOOSE i \in 1..Len(text) :
                      /\ ~IsSpace(text[i])
                      /\ \A j \in (i + 1)..Len(text) : IsSpace(text[j])
    IN  SubSeq(text, 1, n)

\* text.lstrip()
LStrip(text) == SubSeq(text, Len(LeadingSpace(text)) + 1, Len(text))

EndsWith(text, c) == Len(text) > 0 /\ text[Len(text)] = c

\* The line whose indent on_return_key copies: the line above the cursor's
\* line (text.get of line-1), or "" when the cursor is on the first line.
PrevLineText(st) ==
    LET line == LineOf(st.buf, st.insert) IN
    IF line > 1 THEN LineText(st.buf, line - 1) ELSE <<>>

\* opener_increase
OpenerIncrease(lang, prev_line_text) ==
    \/ lang = "python" /\ EndsWith(RStrip(prev_line_text), ":")
    \/ EndsWith(RStrip(prev_line_text), "{")

\* Whether the first non-space character of the cursor's line (the source's
\* rest_of_line is the whole line) is a closing brace or parenthesis.
BeforeCloser(st) ==
    LET rest_of_line == LStrip(LineText(st.buf, LineOf(st.buf, st.insert)))
    IN  Len(rest_of_line) > 0 /\ rest_of_line[1] \in {"}", ")"}

OnReturnKey(lang, st) ==
    LET line   == LineOf(st.buf, st.insert)
        prev   == PrevLineText(st)
        indent == LeadingSpace(prev)
        extra  == IF OpenerIncrease(lang, prev) THEN IndentUnit ELSE <<>>
    IN  IF BeforeCloser(st)
        THEN LET ins == TextInsert(st, st.insert,
                                   <<NL>> \o indent \o extra \o <<NL>> \o indent)
             IN  [st  |-> MarkSetInsert(ins, Offset(ins.buf, line + 1,
                                                    Len(indent \o extra))),
                  ret |-> "break"]
        ELSE [st  |-> TextInsert(st, st.insert, <<NL>> \o indent \o extra),
              ret |-> "break"]

(***************************************************************************)
(* Comment toggle: EditorTab.toggle_comment.                               *)
(***************************************************************************)
\* prefix
CommentPrefix(lang) == IF lang = "python" THEN <<"#", " ">> ELSE <<"/", "/", " ">>

\* prefix.strip()
CommentMarker(lang) == RStrip(LStrip(CommentPrefix(lang)))

StartsWith(text, p) == Len(text) >= Len(p) /\ SubSeq(text, 1, Len(p)) = p

\* The lines start_line..end_line that toggle_comment works on: those the
\* selection touches, or the cursor's line.
ToggleLines(st) ==
    IF HasSel(st) THEN LineOf(st.buf, st.sel[1])..LineOf(st.buf, st.sel[2])
    ELSE {LineOf(st.buf, st.insert)}

\* The test that sends toggle_comment to its uncomment branch.
AllCommented(lang, st) ==
    \A l \in ToggleLines(st) :
        LET t == LineText(st.buf, l) IN
        RStrip(LStrip(t)) # <<>> => StartsWith(LStrip(t), CommentMarker(lang))

\* text.search(marker, "l.0", "l.end"): the offset of the first occurrence of
\* marker in line l, or -1.
SearchLine(text, l, marker) ==
    LET a    == LineStart(text, l)
        b    == LineEnd(text, l)
        hits == {i \in a..(b - Len(marker)) : Get(text, i, i + Len(marker)) = marker}
    IN  IF hits = {} THEN -1 ELSE CHOOSE i \in hits : \A j \in hits : i <= j

\* The uncomment branch on one line: the marker's first occurrence is deleted.
UncommentLine(lang, st, l) ==
    LET real_idx == SearchLine(st.buf, l, CommentMarker(lang)) IN
    IF real_idx < 0 THEN st
    ELSE TextDelete(st, real_idx, real_idx + Len(CommentMarker(lang)))

\* The comment branch on one line: the prefix is inserted at "l.0".
CommentLine(lang, st, l) == TextInsert(st, LineStart(st.buf, l), CommentPrefix(lang))

RECURSIVE ToggleFrom(_, _, _, _, _)
\* The loop of either branch over the lines l..last.
ToggleFrom(lang, st, l, last, uncomment) ==
    IF l > last THEN st
    ELSE ToggleFrom(lang,
                    IF uncomment THEN UncommentLine(lang, st, l)
                    ELSE CommentLine(lang, st, l),
                    l + 1, last, uncomment)

ToggleComment(lang, st) ==
    LET ls   == ToggleLines(st)
        from == CHOOSE l \in ls : \A k \in ls : l <= k
        to   == CHOOSE l \in ls : \A k \in ls : l >= k
    IN  [st  |-> ToggleFrom(lang, st, from, to, AllCommented(lang, st)),
         ret |-> "break"]

(***************************************************************************)
(* Syntax highlighting: highlight_syntax, its lexer-backed strategy and    *)
(* its regex fallback.  A regex is modelled by what it matches at an       *)
(* offset: the offset where its match from there ends, or -1.              *)
(***************************************************************************)
\* The tags highlight_syntax clears and its strategies add.
HlTags == {"kw", "builtin", "comment", "string", "number", "operator", "tag", "attr"}

\* The characters Python's \w matches, among those texts are made of.
WordChars ==
    {"a", "b", "c", "d", "e", "f", "g", "h", "i", "j", "k", "l", "m", "n", "o",
     "p", "q", "r", "s", "t", "u", "v", "w", "x", "y", "z", "Q", "_",
     "0", "1", "2", "3", "4", "5", "6", "7", "8", "9"}

IsWord(c) == c \in WordChars

\* IndexFromPos with the column counted from the start of the text on
\* every line.
IndexFromPos_ColumnOfText(pos, text) ==
    LET upto == SubSeq(text, 1, Min(pos, Len(text)))
        nls  == {i \in 1..Len(upto) : upto[i] = NL}
    IN  <<Cardinality(nls) + 1, Len(upto)>>

\* _index_from_pos(pos, text): the "line.col" index of offset pos, as the
\* pair <<line, col>>.  The slice text[:pos] stops at the end of the text.
IndexFromPos(pos, text) ==
    LET upto == SubSeq(text, 1, Min(pos, Len(text)))
        nls  == {i \in 1..Len(upto) : upto[i] = NL}
        last == CHOOSE i \in nls : \A j \in nls : i >= j
    IN  <<Cardinality(nls) + 1,
          IF nls # {} THEN Len(upto) - last ELSE Len(upto)>>

\* text.tag_add(tag, "l1.c1", "l2.c2") on the tags tg of text: the
\* characters from the first index up to the second get the tag.
TagAdd(tg, text, tag, from, to) ==
    tg \cup {<<tag, i>> : i \in Offset(text, from[1], from[2])
                                    ..(Offset(text, to[1], to[2]) - 1)}

\* text.tag_remove(tag, "1.0", "end") for each of the syntax tags
ClearTags_KeepsTags(tg) == tg

ClearTags(tg) == {t \in tg : t[1] \notin HlTags}

\* Whether text has the characters s at offset i.
HasAt(text, i, s) == i + Len(s) <= Len(text) /\ Get(text, i, i + Len(s)) = s

\* Where ".*" stops from offset i: at the next newline, or at the end.
DotStar_PastLineEnd(text, i) == Len(text) + 1

DotStar(text, i) ==
    CHOOSE j \in i..Len(text) :
        /\ j = Len(text) \/ text[j + 1] = NL
        /\ \A k \in i..(j - 1) : text[k + 1] # NL

\* open.* at offset i
ToLineEnd(text, i, open) ==
    IF HasAt(text, i, open) THEN DotStar(text, i + Len(open)) ELSE -1

\* open.*?close at offset i, with re.S: up to the first close after open
Delimited(text, i, open, close) ==
    IF ~HasAt(text, i, open) THEN -1
    ELSE LET ends == {j \in (i + Len(open))..Len(text) : HasAt(text, j, close)}
         IN  IF ends = {} THEN -1
             ELSE (CHOOSE j \in ends : \A k \in ends : j <= k) + Len(close)

RECURSIVE FirstOf(_, _, _, _)
\* (A1|A2|...) at offset i, each Ak an open.*?close given as <<open, close>>:
\* the first alternative from the n-th on that matches
FirstOf(text, i, alts, n) ==
    IF n > Len(alts) THEN -1
    ELSE LET e == Delimited(text, i, alts[n][1], alts[n][2])
         IN  IF e >= 0 THEN e ELSE FirstOf(text, i, alts, n + 1)

\* \b at offset i
WordBoundary(text, i) ==
    (i > 0 /\ IsWord(text[i])) # (i < Len(text) /\ IsWord(text[i + 1]))

\* \b(?:k1|k2|...)\b at offset i
KeywordAt(text, i, kws) ==
    LET fit == {k \in kws : HasAt(text, i, k) /\ WordBoundary(text, i + Len(k))}
    IN  IF WordBoundary(text, i) /\ fit # {}
        THEN i + Len(CHOOSE k \in fit : TRUE) ELSE -1

\* <[^>]+> at offset i
HtmlTagAt(text, i) ==
    LET closes == {j \in (i + 1)..(Len(text) - 1) : text[j + 1] = ">"}
        first  == CHOOSE j \in closes : \A k \in closes : j <= k
    IN  IF HasAt(text, i, <<"<">>) /\ closes # {} /\ first > i + 1
        THEN first + 1 ELSE -1

\* (\w+)(?=\=) at offset i
HtmlAttrAt(text, i) ==
    LET run == CHOOSE j \in i..Len(text) :
                  /\ \A k \in (i + 1)..j : IsWord(text[k])
                  /\ j = Len(text) \/ ~IsWord(text[j + 1])
    IN  IF run > i /\ HasAt(text, run, <<"=">>) THEN run ELSE -1

RECURSIVE FindIter(_, _, _)
\* re.finditer: the matches <<start, end>> from offset from on, leftmost
\* first and none overlapping another; m[i] is where the match at i ends.
FindIter(m, from, n) ==
    LET hits == {i \in from..n : m[i] >= 0} IN
    IF hits = {} THEN <<>>
    ELSE LET s == CHOOSE i \in hits : \A k \in hits : i <= k
         IN  <<<<s, m[s]>>>> \o FindIter(m, IF m[s] > s THEN m[s] ELSE s + 1, n)

\* for m in re.finditer(r"#.*", content) and r"//.*"
LineComments(text, open) ==
    FindIter([i \in 0..Len(text) |-> ToLineEnd(text, i, open)], 0, Len(text))

\* for m in re.finditer of an alternation of delimited patterns
DelimitedMatches(text, alts) ==
    FindIter([i \in 0..Len(text) |-> FirstOf(text, i, alts, 1)], 0, Len(text))

KeywordMatches(text, kws) ==
    FindIter([i \in 0..Len(text) |-> KeywordAt(text, i, kws)], 0, Len(text))

HtmlTagMatches(text) ==
    FindIter([i \in 0..Len(text) |-> HtmlTagAt(text, i)], 0, Len(text))

HtmlAttrMatches(text) ==
    FindIter([i \in 0..Len(text) |-> HtmlAttrAt(text, i)], 0, Len(text))

\* The delimiters of the string patterns.
DQ == <<"\"">>

SQ == <<"'">>

BlockComment == <<<<<<"/", "*">>, <<"*", "/">>>>>>

QuotedStrings == <<<<DQ, DQ>>, <<SQ, SQ>>>>

TripleQuoted == <<<<DQ \o DQ \o DQ, DQ \o DQ \o DQ>>, <<SQ \o SQ \o SQ, SQ \o SQ \o SQ>>>>

PercentStrings ==
    <<<<<<"%", "q", "{">>, <<"}">>>>, <<<<"%", "Q", "{">>, <<"}">>>>,
      <<<<"%", "{">>, <<"}">>>>,
      <<<<"%", "q", "[">>, <<"]">>>>, <<<<"%", "Q", "[">>, <<"]">>>>,
      <<<<"%", "[">>, <<"]">>>>>>

NixStrings == <<<<DQ, DQ>>, <<SQ \o SQ, SQ \o SQ>>>>

\* The keyword lists, cut down to their keywords of at most two letters.
KeywordsOf(lang) ==
    CASE lang = "python" ->
            {<<"i", "f">>, <<"a", "s">>, <<"i", "n">>, <<"i", "s">>, <<"o", "r">>}
      [] lang \in {"ruby", "rb"} ->
            {<<"i", "f">>, <<"i", "n">>, <<"d", "o">>, <<"o", "r">>}
      [] lang = "nix" -> {<<"i", "n">>, <<"o", "r">>}
      [] lang \in {"javascript", "js", "typescript", "ts", "lua"} -> {<<"i", "f">>}
      [] OTHER -> {<<"i", "f">>, <<"d", "o">>, <<"f", "n">>}

\* self._tag_range(tag, m.start(), m.end(), content) for each match
TagEach(tag, ms) ==
    [k \in 1..Len(ms) |-> [tag |-> tag, start |-> ms[k][1], end |-> ms[k][2]]]

\* The ranges _basic_highlight passes to _tag_range, in order.
BasicSpans(lang, text) ==
    CASE lang = "python" ->
            TagEach("comment", LineComments(text, <<"#">>))
            \o TagEach("string", DelimitedMatches(text, TripleQuoted \o QuotedStrings))
            \o TagEach("kw", KeywordMatches(text, KeywordsOf(lang)))
      [] lang \in {"c", "cpp", "c++", "rust", "java", "go", "csharp", "cs",
                   "kotlin", "kt"} ->
            TagEach("comment", LineComments(text, <<"/", "/">>))
            \o TagEach("comment", DelimitedMatches(text, BlockComment))
            \o TagEach("string", DelimitedMatches(text, QuotedStrings))
            \o TagEach("kw", KeywordMatches(text, KeywordsOf(lang)))
      [] lang \in {"ruby", "rb"} ->
            TagEach("comment", LineComments(text, <<"#">>))
            \o TagEach("string", DelimitedMatches(text,
                                    TripleQuoted \o QuotedStrings \o PercentStrings))
            \o TagEach("kw", KeywordMatches(text, KeywordsOf(lang)))
      [] lang = "nix" ->
            TagEach("comment", LineComments(text, <<"#">>))
            \o TagEach("string", DelimitedMatches(text, NixStrings))
            \o TagEach("kw", KeywordMatches(text, KeywordsOf(lang)))
      [] lang \in {"html", "htm"} ->
            TagEach("tag", HtmlTagMatches(text))
            \o TagEach("attr", HtmlAttrMatches(text))
            \o TagEach("string", DelimitedMatches(text, QuotedStrings))
      [] lang = "css" ->
            TagEach("comment", DelimitedMatches(text, BlockComment))
            \o TagEach("string", DelimitedMatches(text, QuotedStrings))
      [] lang \in {"javascript", "js", "typescript", "ts", "lua"} ->
            TagEach("comment", LineComments(text, <<"/", "/">>))
            \o TagEach("comment", DelimitedMatches(text, BlockComment))
            \o TagEach("string", DelimitedMatches(text,
                                    QuotedStrings \o <<<<<<Backtick>>, <<Backtick>>>>>>))
            \o TagEach("kw", KeywordMatches(text, KeywordsOf(lang)))
      [] OTHER -> <<>>

\* _tag_range(tag, start_idx, end_idx, text)
TagRange(tg, text, sp) ==
    TagAdd(tg, text, sp.tag, IndexFromPos(sp.start, text), IndexFromPos(sp.end, text))

RECURSIVE TagRanges(_, _, _, _)
TagRanges(tg, text, sps, k) ==
    IF k > Len(sps) THEN tg
    ELSE TagRanges(TagRange(tg, text, sps[k]), text, sps, k + 1)

\* _basic_highlight(content) on a text that carries the tags tg
BasicHighlight(tg, lang, text) == TagRanges(tg, text, BasicSpans(lang, text), 1)

\* What pygments lexes: the text without the newlines at its ends, and one
\* newline after it (the lexer options stripnl and ensurenl, both on by default).
LexInput(text) ==
    LET inner == {i \in 1..Len(text) : text[i] # NL} IN
    IF inner = {} THEN <<NL>>
    ELSE SubSeq(text, CHOOSE i \in inner : \A j \in inner : i <= j,
                      CHOOSE i \in inner : \A j \in inner : i >= j) \o <<NL>>

\* The token type a character gets from the lexer of the model.
TokenType(c) ==
    CASE c = "#" -> "Comment"
      [] c \in {"\"", "'"} -> "String"
      [] c \in {"0", "1", "2", "3", "4", "5", "6", "7", "8", "9"} -> "Number"
      [] c \in {"=", "*", "/"} -> "Operator"
      [] c \in {"<", ">"} -> "Punctuation"
      [] IsWord(c) -> "Name"
      [] OTHER -> "Text"

\* lex(content, lexer): the tokens (type, string), which cover the lexer's
\* input in order.  Pygments is not part of the repository; the lexer of the
\* model makes one token of each character.
Lex(text) ==
    [i \in 1..Len(LexInput(text)) |->
        [type |-> TokenType(LexInput(text)[i]), str |-> <<LexInput(text)[i]>>]]

\* map_token_to_tag: "" for None
MapTokenToTag(ttype) ==
    CASE ttype = "Comment" -> "comment"
      [] ttype = "Keyword" -> "kw"
      [] ttype \in {"Name.Builtin", "Name.Function", "Name.Class"} -> "builtin"
      [] ttype = "String" -> "string"
      [] ttype = "Number" -> "number"
      [] ttype \in {"Operator", "Punctuation"} -> "operator"
      [] ttype = "Name.Tag" -> "tag"
      [] ttype = "Name.Attribute" -> "attr"
      [] OTHER -> ""

RECURSIVE LexerTags(_, _, _, _, _, _)
\* The loop of _highlight_with_pygments over the tokens k..stop, pos being
\* the sum of the lengths of the tokens before the k-th.
LexerTags(tg, text, toks, k, stop, pos) ==
    IF k > stop THEN tg
    ELSE LET length == Len(toks[k].str)
             tag    == MapTokenToTag(toks[k].type)
         IN  LexerTags(IF tag # ""
                       THEN TagAdd(tg, text, tag, IndexFromPos(pos, text),
                                   IndexFromPos(pos + length, text))
                       ELSE tg,
                       text, toks, k + 1, stop, pos + length)

\* _highlight_with_pygments(content): the tags it leaves and whether it
\* raised; lex() raises after fault tokens if it has that many.
HighlightWithPygments(tg, text, fault) ==
    LET toks   == Lex(text)
        raises == fault \in 0..Len(toks)
    IN  [tagged |-> LexerTags(tg, text, toks, 1,
                              IF raises THEN fault ELSE Len(toks), 0),
         raised |-> raises]

\* highlight_syntax on a text that carries the tags tg: the tags it leaves,
\* the ranges the fallback tagged, and whether the lexer strategy raised.
HighlightSyntax(tg, lang, text, pygments, fault) ==
    LET cleared == ClearTags(tg)
        lexed   == HighlightWithPygments(cleared, text, fault)
    IN  IF pygments /\ ~lexed.raised
        THEN [tagged |-> lexed.tagged, spans |-> <<>>, raised |-> FALSE]
        ELSE [tagged |-> BasicHighlight(IF pygments THEN lexed.tagged ELSE cleared,
                                        lang, text),
              spans  |-> BasicSpans(lang, text),
              raised |-> pygments]

(***************************************************************************)
(* The debounce of the highlighting: schedule_highlight and Tk's timers.   *)
(***************************************************************************)
\* delay=150, in units of 50 ms
Delay == 3

NoPass == [ran |-> FALSE, buf |-> <<>>, tagged |-> {}]

HlEvent(op, raised, basic) == [op |-> op, raised |-> raised, basic |-> basic]

\* A tab whose text was never highlighted and has no callback pending.
HighlightIdle ==
    /\ usePygments = FALSE
    /\ lexFault = -1
    /\ tagged = {}
    /\ spans = <<>>
    /\ hlEvent = HlEvent("none", FALSE, FALSE)
    /\ lastPass = NoPass
    /\ afterId = 0
    /\ timers = {}
    /\ nextId = 1
    /\ clock = 0
    /\ strokes = <<>>
    /\ passLog = <<>>

\* Tk's pending callbacks after text.after_cancel(id)
AfterCancel_Nothing(ts, id) == ts

AfterCancel(ts, id) == {t \in ts : t.id # id}

\* schedule_highlight(): the pending callback is cancelled and a new one is
\* scheduled delay later.
ScheduleHighlight ==
    /\ timers' = (IF afterId # 0 THEN AfterCancel(timers, afterId) ELSE timers)
                    \cup {[id |-> nextId, due |-> clock + Delay]}
    /\ afterId' = nextId
    /\ nextId' = nextId + 1

\* No run worker was started, nothing is inside append_console and
\* _index_from_pos was not called.
AsideIdle ==
    /\ workers = <<>>
    /\ artifact = 0
    /\ stopEvent = FALSE
    /\ runs = 0
    /\ widget = "disabled"
    /\ appenders = <<>>
    /\ idxText = <<>>
    /\ idxPos = 0
    /\ idxOut = <<0, 0>>

(***************************************************************************)
(* The language tables: LANG_EXT and the toolbar's language selector.      *)
(***************************************************************************)
LangExtKeys ==
    {"python", "c", "cpp", "html", "css", "javascript", "js", "typescript",
     "ts", "rust", "java", "lua", "go", "csharp", "cs", "ruby", "rb",
     "kotlin", "kt", "nix"}

LANG_EXT == [l \in LangExtKeys |->
    CASE l = "python" -> ".py"
      [] l = "c" -> ".c"
      [] l = "cpp" -> ".cpp"
      [] l = "html" -> ".html"
      [] l = "css" -> ".css"
      [] l \in {"javascript", "js"} -> ".js"
      [] l \in {"typescript", "ts"} -> ".ts"
      [] l = "rust" -> ".rs"
      [] l = "java" -> ".java"
      [] l = "lua" -> ".lua"
      [] l = "go" -> ".go"
      [] l \in {"csharp", "cs"} -> ".cs"
      [] l \in {"ruby", "rb"} -> ".rb"
      [] l \in {"kotlin", "kt"} -> ".kt"
      [] l = "nix" -> ".nix"]

(***************************************************************************)
(* The run dispatcher: VanillaStudioApp.run_current and its worker.        *)
(*                                                                         *)
(* The worker's if-chain over the language is the table Branch: for each   *)
(* language the probes, process steps and browser calls of its branch, in  *)
(* the order the branch makes them.                                        *)
(***************************************************************************)
\* Executables the worker names for a PATH search.
PathTools == {"gcc", "g++", "rustc", "go", "javac", "java", "node", "tsc",
              "lua", "dotnet", "ruby", "kotlinc", "nix", "nix-shell"}

\* if which(t1) and which(t2) ...: ... else: [webbrowser.open;] append(msg)
Probe(tools, msg, about, fallback) ==
    [k |-> "probe", tools |-> tools, msg |-> msg, about |-> about,
     fallback |-> fallback, exe |-> "", show |-> "", unless |-> ""]

\* code, out, err = safe_run_subprocess([exe, ...]).  show is "always" when
\* out and err are appended whatever the code, "failed" when they are appended
\* only for a non-zero code, which also ends the run, and "never" when the
\* result is dropped.  unless names a condition under which the step is skipped.
Step(exe, show, unless) ==
    [k |-> "spawn", tools |-> <<>>, msg |-> "", about |-> "",
     fallback |-> FALSE, exe |-> exe, show |-> show, unless |-> unless]

\* webbrowser.open(...); append(msg)
Browse(msg) ==
    [k |-> "browser", tools |-> <<>>, msg |-> msg, about |-> "",
     fallback |-> FALSE, exe |-> "", show |-> "", unless |-> ""]

\* append(msg)
Say(msg) ==
    [k |-> "say", tools |-> <<>>, msg |-> msg, about |-> "",
     fallback |-> FALSE, exe |-> "", show |-> "", unless |-> ""]

\* compile with tool, stop on a non-zero code, run the artifact
CompileAndRun(tool, about) ==
    <<Probe(<<tool>>, "notfound", about, FALSE),
      Step(tool, "failed", ""), Step("artifact", "always", "")>>

\* run the file with the interpreter tool
Interpret(tool, about) ==
    <<Probe(<<tool>>, "notfound", about, FALSE), Step(tool, "always", "")>>

\* The branch of runner() taken for lang, for a file named file.
Branch(lang, file) ==
    CASE lang = "python" -> <<Step("sys.executable", "always", "")>>
      [] lang = "c" -> CompileAndRun("gcc", "gcc")
      [] lang \in {"cpp", "c++"} -> CompileAndRun("g++", "g++")
      [] lang = "rust" -> CompileAndRun("rustc", "rustc")
      [] lang = "go" -> Interpret("go", "go")
      [] lang = "java" ->
            <<Probe(<<"javac", "java">>, "notfound", "javac/java", FALSE),
              Step("javac", "failed", ""), Step("java", "always", "")>>
      [] lang \in {"javascript", "js"} ->
            <<Probe(<<"node">>, "notfound_browser", "node", TRUE),
              Step("node", "always", "")>>
      [] lang \in {"typescript", "ts"} ->
            <<Probe(<<"tsc">>, "notfound", "tsc", FALSE),
              Step("tsc", "failed", ""),
              Probe(<<"node">>, "notfound_browser", "node", TRUE),
              Step("node", "always", "")>>
      [] lang = "lua" -> Interpret("lua", "lua")
      [] lang \in {"html", "htm", "css"} -> <<Browse("opened")>>
      [] lang = "csharp" ->
            <<Probe(<<"dotnet">>, "notfound", "dotnet", FALSE),
              Step("dotnet", "never", "csproj"), Step("dotnet", "always", "")>>
      [] lang = "ruby" -> Interpret("ruby", "ruby")
      [] lang = "kotlin" ->
            <<Probe(<<"kotlinc">>, "notfound", "kotlinc", FALSE),
              Step("kotlinc", "failed", ""), Step("java", "always", "")>>
      [] lang = "nix" ->
            <<Probe(<<"nix">>, "notfound", "nix", FALSE),
              Step(IF file = "flake.nix" THEN "nix" ELSE "nix-shell", "always", "")>>
      [] OTHER -> <<Say("unknown")>>

\* What safe_run_subprocess returns for a process that was started: its exit
\* code and whether it wrote to stdout and to stderr; or, for a timeout,
\* -1 and the exception text.  (First, the same with str(e) left out.)
Started_ExceptionTextDropped ==
    [code : {0, 1}, out : {"", "out"}, err : {"", "err"}, missing : {FALSE}]
        \cup {[code |-> -1, out |-> "", err |-> "", missing |-> FALSE]}

Started ==
    [code : {0, 1}, out : {"", "out"}, err : {"", "err"}, missing : {FALSE}]
        \cup {[code |-> -1, out |-> "", err |-> "exception", missing |-> FALSE]}

\* What safe_run_subprocess returns when the executable is not on PATH: -1
\* and the text of the exception subprocess.run raised.
NotStarted == [code |-> -1, out |-> "", err |-> "exception", missing |-> TRUE]

Line(kind, about) == [kind |-> kind, about |-> about]

\* if out: append_console(out); if err: append_console(err)
Output(exe, r) ==
    (IF r.out # "" THEN <<Line("stdout", exe)>> ELSE <<>>)
        \o (IF r.err # "" THEN <<Line("stderr", exe)>> ELSE <<>>)

\* EndsRun without the return after a failed compile step.
EndsRun_NoReturn(step, r) == FALSE

\* Whether the worker returns after a step with result r.
EndsRun(step, r) == step.show = "failed" /\ r.code # 0

\* What the worker appends after a step with result r.
Shown(step, r) ==
    IF step.show = "always" \/ (step.show = "failed" /\ r.code # 0)
    THEN Output(step.exe, r) ELSE <<>>

\* MissingEndsRun without the return (or else) after the "not found" line.
MissingEndsRun_NoReturn(step) == FALSE

\* Whether the worker returns after a probe of the step found a tool missing.
MissingEndsRun(step) == step.k = "probe"

\* Whether the worker skips a step: the C# scaffold when project.csproj exists.
Skipped(step) == step.unless = "csproj" /\ hasCsproj

RunIdle ==
    /\ runFile = "main"
    /\ hasCsproj = FALSE
    /\ pathHas = {}
    /\ pathLacks = {}
    /\ runPc = "idle"
    /\ runStep = 0
    /\ probes = <<>>
    /\ spawns = <<>>
    /\ browser = <<>>
    /\ console = <<>>
    /\ status = "Ready"

\* The worker's current step.
AtStep == Branch(language, runFile)[runStep]

Working(kind) ==
    /\ runPc = "running"
    /\ runStep <= Len(Branch(language, runFile))
    /\ AtStep.k = kind

\* The worker goes on to the next step, or ends the run.
Advance(ends) ==
    IF ends \/ runStep = Len(Branch(language, runFile))
    THEN runPc' = "finally" /\ runStep' = runStep
    ELSE runPc' = "running" /\ runStep' = runStep + 1

\* run_current, for a tab with a file: the "Running" line, the status, and
\* the worker thread is started.
RunCurrent ==
    /\ runPc = "idle"
    /\ console' = Append(console, Line("running", ""))
    /\ status' = "Running..."
    /\ runPc' = "running"
    /\ runStep' = 1
    /\ UNCHANGED <<language, editVars, fileVars, runFile, hasCsproj, pathHas, pathLacks,
                   probes, spawns, browser>>

\* The worker evaluates which(t1) and which(t2) ...: the first n tools are
\* found and the next one, if any, is not.
WorkerProbe ==
    /\ Working("probe")
    /\ \E n \in 0..Len(AtStep.tools) :
        LET tools == AtStep.tools
            found == {tools[i] : i \in 1..n}
            lacks == IF n < Len(tools) THEN {tools[n + 1]} ELSE {}
            asked == Min(n + 1, Len(tools))
        IN  /\ found \cap pathLacks = {}
            /\ lacks \cap pathHas = {}
            /\ pathHas' = pathHas \cup found
            /\ pathLacks' = pathLacks \cup lacks
            /\ probes' = probes \o [i \in 1..asked |->
                                      [tool |-> tools[i], found |-> i <= n]]
            /\ IF lacks = {}
               THEN /\ Advance(FALSE)
                    /\ UNCHANGED <<browser, console>>
               ELSE /\ Advance(MissingEndsRun(AtStep))
                    /\ browser' = IF AtStep.fallback
                                  THEN Append(browser, runFile) ELSE browser
                    /\ console' = Append(console, Line(AtStep.msg, AtStep.about))
    /\ UNCHANGED <<language, editVars, fileVars, runFile, hasCsproj, spawns, status>>

\* The worker calls safe_run_subprocess and handles what it returns.
WorkerSpawn ==
    /\ Working("spawn")
    /\ IF Skipped(AtStep)
       THEN /\ Advance(FALSE)
            /\ UNCHANGED <<pathHas, pathLacks, spawns, console>>
       ELSE \E r \in Started \cup {NotStarted} :
            /\ r.missing => (AtStep.exe \in PathTools /\ AtStep.exe \notin pathHas)
            /\ (~r.missing /\ AtStep.exe \in PathTools) => AtStep.exe \notin pathLacks
            /\ pathHas' = IF ~r.missing /\ AtStep.exe \in PathTools
                          THEN pathHas \cup {AtStep.exe} ELSE pathHas
            /\ pathLacks' = IF r.missing /\ AtStep.exe \in PathTools
                            THEN pathLacks \cup {AtStep.exe} ELSE pathLacks
            /\ spawns' = Append(spawns, [exe |-> AtStep.exe, code |-> r.code,
                                         out |-> r.out, err |-> r.err,
                                         missing |-> r.missing])
            /\ console' = console \o Shown(AtStep, r)
            /\ Advance(EndsRun(AtStep, r))
    /\ UNCHANGED <<language, editVars, fileVars, runFile, hasCsproj, probes, browser, status>>

\* The worker opens the file in the browser and says so.
WorkerBrowse ==
    /\ Working("browser")
    /\ browser' = Append(browser, runFile)
    /\ console' = Append(console, Line(AtStep.msg, ""))
    /\ Advance(FALSE)
    /\ UNCHANGED <<language, editVars, fileVars, runFile, hasCsproj, pathHas, pathLacks,
                   probes, spawns, status>>

\* The worker reports a language it has no branch for.
WorkerSay ==
    /\ Working("say")
    /\ console' = Append(console, Line(AtStep.msg, ""))
    /\ Advance(FALSE)
    /\ UNCHANGED <<language, editVars, fileVars, runFile, hasCsproj, pathHas, pathLacks,
                   probes, spawns, browser, status>>

\* finally: self.update_status("Ready")
WorkerFinally ==
    /\ runPc = "finally"
    /\ status' = "Ready"
    /\ runPc' = "done"
    /\ UNCHANGED <<language, editVars, fileVars, runFile, hasCsproj, pathHas, pathLacks,
                   runStep, probes, spawns, browser, console>>

(***************************************************************************)
(* Files: new_file, open_file, save_file, save_file_as and EditorTab.save. *)
(*                                                                         *)
(* A file name is the sequence of its pieces, cut before each dot:         *)
(* "a.tar.gz" is <<"a", ".tar", ".gz">>, "untitled" is <<"untitled">>,     *)
(* "a." is <<"a", ".">> and ".rc" is <<"", ".rc">>.                        *)
(***************************************************************************)
NoPath == <<>>

\* Path.suffix: the last piece, unless the name has no dot, ends with its
\* last dot, or has its only dot in front.
Suffix(name) ==
    IF Len(name) < 2 THEN ""
    ELSE IF name[Len(name)] = "." THEN ""
    ELSE IF Len(name) = 2 /\ name[1] = "" THEN ""
    ELSE name[Len(name)]

\* Path.with_suffix(ext): ext replaces the suffix, or is added when there is none.
WithSuffix(name, ext) ==
    IF Suffix(name) = "" THEN Append(name, ext)
    ELSE [name EXCEPT ![Len(name)] = ext]

\* str.lower() on a suffix.
LowerExt(x) ==
    CASE x = ".PY" -> ".py"
      [] x = ".CPP" -> ".cpp"
      [] OTHER -> x

\* The values of the language selector.
SelectorValues ==
    {"Python", "C", "C++", "HTML", "CSS", "JavaScript", "TypeScript", "Rust",
     "Java", "Lua", "Go", "C#", "Ruby", "Kotlin", "Nix"}

\* language.lower() on a value of the selector, or on its initial "python".
LowerLang(v) ==
    CASE v = "Python" -> "python"
      [] v = "C" -> "c"
      [] v = "C++" -> "c++"
      [] v = "HTML" -> "html"
      [] v = "CSS" -> "css"
      [] v = "JavaScript" -> "javascript"
      [] v = "TypeScript" -> "typescript"
      [] v = "Rust" -> "rust"
      [] v = "Java" -> "java"
      [] v = "Lua" -> "lua"
      [] v = "Go" -> "go"
      [] v = "C#" -> "c#"
      [] v = "Ruby" -> "ruby"
      [] v = "Kotlin" -> "kotlin"
      [] v = "Nix" -> "nix"
      [] OTHER -> v

\* lang_map.get(ext, "python") of open_file, for the suffix of the opened file.
LangOfSuffix(x) ==
    CASE LowerExt(x) = ".py" -> "python"
      [] LowerExt(x) = ".c" -> "c"
      [] LowerExt(x) \in {".cpp", ".cc", ".cxx"} -> "cpp"
      [] LowerExt(x) \in {".html", ".htm"} -> "html"
      [] LowerExt(x) = ".css" -> "css"
      [] LowerExt(x) = ".js" -> "javascript"
      [] LowerExt(x) = ".ts" -> "typescript"
      [] LowerExt(x) = ".rs" -> "rust"
      [] LowerExt(x) = ".java" -> "java"
      [] LowerExt(x) = ".lua" -> "lua"
      [] LowerExt(x) = ".go" -> "go"
      [] OTHER -> "python"

\* The suffix rule of EditorTab.save and save_file_as: a name whose suffix
\* is not the language's extension (compared in lower case) gets it.
FixSuffix(lang, name) ==
    IF lang \notin DOMAIN LANG_EXT THEN name
    ELSE IF Suffix(name) = "" THEN WithSuffix(name, LANG_EXT[lang])
    ELSE IF LowerExt(Suffix(name)) # LowerExt(LANG_EXT[lang])
    THEN WithSuffix(name, LANG_EXT[lang])
    ELSE name

\* "untitled" + (LANG_EXT.get(language, "") or ""), for the selector's text
NewTitle(v) ==
    IF v \in DOMAIN LANG_EXT THEN <<"untitled", LANG_EXT[v]>> ELSE <<"untitled">>

\* Names the user gives in the Save As dialog, and files there are to open.
DialogNames == {<<"untitled">>, <<"a", ".txt">>, <<"a", ".cpp">>, <<"a", ".">>}

OpenNames == {<<"a", ".PY">>, <<"a", ".cc">>, <<"a", ".rs">>, <<"a", ".md">>}

\* A file operation and how it ended, with the tab's file path and title,
\* the length of the console and the number of workers when it began.
FileEvent(op, ok) ==
    [op |-> op, ok |-> ok, path |-> filepath, title |-> title,
     lines |-> Len(console), workers |-> Len(workers)]

FilesIdle ==
    /\ langVar = "python"
    /\ filepath = NoPath
    /\ title = NewTitle("python")
    /\ fileEvent = FileEvent("new", TRUE)
    /\ fileOps = 0
    /\ written = NoPath

\* The user picks a language in the selector.
SelectLanguage(v) ==
    /\ langVar' = v
    /\ UNCHANGED <<language, editVars, runVars, filepath, title, fileEvent, fileOps,
                   written>>

\* new_file: a tab for the selector's language, without a file.
NewFile ==
    /\ fileOps < MaxFileOps
    /\ language' = LowerLang(langVar)
    /\ filepath' = NoPath
    /\ title' = NewTitle(langVar)
    /\ written' = NoPath
    /\ status' = "New file"
    /\ fileEvent' = FileEvent("new", TRUE)
    /\ fileOps' = fileOps + 1
    /\ UNCHANGED <<editVars, langVar, runFile, hasCsproj, pathHas, pathLacks,
                   runPc, runStep, probes, spawns, browser, console>>

\* open_file(path): a tab for the file, its language by the file's suffix; or
\* the file cannot be read and an error dialog is shown.
OpenFile(name) ==
    /\ fileOps < MaxFileOps
    /\ fileOps' = fileOps + 1
    /\ \/ /\ language' = LangOfSuffix(Suffix(name))
          /\ filepath' = name
          /\ title' = name
          /\ written' = name
          /\ status' = "Opened"
          /\ fileEvent' = FileEvent("open", TRUE)
       \/ /\ fileEvent' = FileEvent("open", FALSE)
          /\ UNCHANGED <<language, filepath, title, status, written>>
    /\ UNCHANGED <<editVars, langVar, runFile, hasCsproj, pathHas, pathLacks,
                   runPc, runStep, probes, spawns, browser, console>>

\* tab.save(path) inside the try of save_file (path = NoPath) or of
\* save_file_as: the path is set and its suffix fixed, then the file is
\* written; only then are the title, the status and the console updated.
\* A failed write raises, and the caller shows an error dialog.
TrySave(op, path) ==
    LET target == FixSuffix(language, IF path # NoPath THEN path ELSE filepath) IN
    /\ filepath' = target
    /\ \/ /\ title' = target
          /\ written' = target
          /\ status' = "Saved"
          /\ console' = Append(console, Line("saved", op))
          /\ fileEvent' = FileEvent(op, TRUE)
       \/ /\ fileEvent' = FileEvent(op, FALSE)
          /\ UNCHANGED <<title, status, console, written>>

\* save_file_as, answered with name in the dialog, or cancelled (NoPath).
SaveAsWith(name) ==
    IF name = NoPath
    THEN /\ fileEvent' = FileEvent("save_as_cancelled", TRUE)
         /\ UNCHANGED <<filepath, title, status, console, written>>
    ELSE TrySave("save_as", FixSuffix(language, name))

\* save_file_as
SaveFileAs ==
    /\ fileOps < MaxFileOps
    /\ fileOps' = fileOps + 1
    /\ \E name \in DialogNames \cup {NoPath} : SaveAsWith(name)
    /\ UNCHANGED <<language, editVars, langVar, runFile, hasCsproj, pathHas,
                   pathLacks, runPc, runStep, probes, spawns, browser>>

\* save_file: Save As for a tab without a file, else tab.save().
SaveFile ==
    /\ fileOps < MaxFileOps
    /\ fileOps' = fileOps + 1
    /\ IF filepath = NoPath
       THEN \E name \in DialogNames \cup {NoPath} : SaveAsWith(name)
       ELSE TrySave("save", NoPath)
    /\ UNCHANGED <<language, editVars, langVar, runFile, hasCsproj, pathHas,
                   pathLacks, runPc, runStep, probes, spawns, browser>>

InitFiles ==
    /\ language = "python"
    /\ buf = <<>> /\ insert = 0 /\ sel = NoSel
    /\ event = NoEvent /\ pre = EmptyState /\ orig = EmptyState
    /\ RunIdle
    /\ AsideIdle
    /\ FilesIdle
    /\ HighlightIdle

NextFiles ==
    \/ \E v \in SelectorValues : SelectLanguage(v)
    \/ NewFile
    \/ \E name \in OpenNames : OpenFile(name)
    \/ SaveFile
    \/ SaveFileAs

SpecFiles == InitFiles /\ [][NextFiles]_vars

\* Languages a tab can have when Run is invoked: the keys of LANG_EXT, what
\* the selector's "C++" and "C#" become in lower case, and typed names.
RunLanguages == LangExtKeys \cup {"c++", "c#", "htm", "text"}

InitRun ==
    /\ language \in RunLanguages
    /\ buf = <<>> /\ insert = 0 /\ sel = NoSel
    /\ event = NoEvent /\ pre = EmptyState /\ orig = EmptyState
    /\ runFile \in {"main", "flake.nix"}
    /\ hasCsproj \in BOOLEAN
    /\ pathHas = {}
    /\ pathLacks = {}
    /\ runPc = "idle"
    /\ runStep = 0
    /\ probes = <<>>
    /\ spawns = <<>>
    /\ browser = <<>>
    /\ console = <<>>
    /\ status = "Ready"
    /\ AsideIdle
    /\ FilesIdle
    /\ HighlightIdle

NextRun ==
    \/ RunCurrent
    \/ WorkerProbe
    \/ WorkerSpawn
    \/ WorkerBrowse
    \/ WorkerSay
    \/ WorkerFinally

SpecRun == InitRun /\ [][NextRun]_vars

(***************************************************************************)
(* Overlapping runs: Run and Stop are pressed while workers of earlier     *)
(* runs are active.  Every worker is a thread of its own over the same     *)
(* tab, so over the same file and language; workers of a C file compile    *)
(* into the same file.out.                                                 *)
(***************************************************************************)
MaxRuns == 2        \* most presses of Run when Stop is not pressed
MaxStopRuns == 1    \* most presses of Run when Stop is pressed as well
MaxStops == 2       \* most presses of Stop

\* Languages of the tab: one that is run directly, one compiled into an
\* artifact and then executed.
OverlapLanguages == {"python", "c"}

\* What a process does here: it ends well with output, fails with an error
\* text, or times out.
Outcomes ==
    {r \in Started : /\ r.code = 0 => (r.out = "out" /\ r.err = "")
                     /\ r.code = 1 => (r.out = "" /\ r.err = "err")}

\* The outcome of a probe, in the shape of a process result.
ProbeResult(found) ==
    [code |-> IF found THEN 0 ELSE 1, out |-> "", err |-> "", missing |-> ~found]

\* The worker thread run_current starts.
NewWorker == [pc |-> "running", step |-> 1, did |-> <<>>, said |-> <<>>]

\* StartsWorker with runs serialised: no thread is started while one runs.
StartsWorker_OnlyWhenIdle(ws) == \A w \in DOMAIN ws : ws[w].pc = "done"

\* Whether run_current starts a thread, given the workers there are: it
\* never looks at _run_thread.
StartsWorker(ws) == TRUE

\* AfterStop with the workers that are running made to end.
AfterStop_EndsWorkers(ws) ==
    [w \in DOMAIN ws |->
        [ws[w] EXCEPT !.pc = IF @ = "running" THEN "finally" ELSE @]]

\* The workers after stop_current: it touches no thread and no process.
AfterStop(ws) == ws

\* Presses of Stop so far.
Stops == Cardinality({i \in DOMAIN console : console[i].kind = "stop"})

\* Whether the worker returns after a step with outcome r.
Ends(step, r) ==
    IF step.k = "probe" THEN r.missing /\ MissingEndsRun(step) ELSE EndsRun(step, r)

\* What the worker appends for a step with outcome r.
Said(step, r) ==
    IF step.k = "probe"
    THEN (IF r.missing THEN <<Line(step.msg, step.about)>> ELSE <<>>)
    ELSE Shown(step, r)

\* run_current for a tab with a file, whatever the earlier workers do.
Run(most) ==
    /\ runs < most
    /\ runs' = runs + 1
    /\ console' = Append(console, Line("running", ""))
    /\ status' = "Running..."
    /\ stopEvent' = FALSE
    /\ workers' = IF StartsWorker(workers) THEN Append(workers, NewWorker) ELSE workers
    /\ UNCHANGED <<language, buf, insert, sel, event, pre, orig, hlVars, timerVars,
                   artifact, appendVars, indexVars, fileVars, runFile, hasCsproj,
                   pathHas, pathLacks, runPc, runStep, probes, spawns, browser>>

\* stop_current
Stop ==
    /\ Stops < MaxStops
    /\ stopEvent' = TRUE
    /\ console' = Append(console, Line("stop", ""))
    /\ status' = "Stopped"
    /\ workers' = AfterStop(workers)
    /\ UNCHANGED <<language, buf, insert, sel, event, pre, orig, hlVars, timerVars,
                   artifact, runs, appendVars, indexVars, fileVars, runFile, hasCsproj,
                   pathHas, pathLacks, runPc, runStep, probes, spawns, browser>>

\* Worker w has handled its current step with outcome r, while the artifact
\* was the one built by worker built.
Handled(w, r, built) ==
    LET me   == workers[w]
        plan == Branch(language, runFile)
        step == plan[me.step]
        over == Ends(step, r) \/ me.step = Len(plan)
    IN  /\ workers' = [workers EXCEPT ![w] =
            [pc   |-> IF over THEN "finally" ELSE "running",
             step |-> IF over THEN me.step ELSE me.step + 1,
             did  |-> Append(me.did, [n |-> me.step, r |-> r, flag |-> stopEvent,
                                      built |-> built]),
             said |-> me.said \o Said(step, r)]]
        /\ console' = console \o Said(step, r)

\* Worker w at a step of the given kind.
OverlapAt(w, kind) ==
    /\ workers[w].pc = "running"
    /\ Branch(language, runFile)[workers[w].step].k = kind

\* Worker w evaluates which(tool).
OverlapProbe(w) ==
    /\ OverlapAt(w, "probe")
    /\ \E found \in BOOLEAN :
        LET tool == Branch(language, runFile)[workers[w].step].tools[1] IN
        /\ found => tool \notin pathLacks
        /\ ~found => tool \notin pathHas
        /\ pathHas' = IF found THEN pathHas \cup {tool} ELSE pathHas
        /\ pathLacks' = IF found THEN pathLacks ELSE pathLacks \cup {tool}
        /\ Handled(w, ProbeResult(found), artifact)
    /\ UNCHANGED <<language, buf, insert, sel, event, pre, orig, hlVars, timerVars,
                   artifact, stopEvent, runs, appendVars, indexVars, fileVars,
                   runFile, hasCsproj, runPc, runStep, probes, spawns, browser, status>>

\* Worker w calls safe_run_subprocess and handles what it returns.  A
\* compiler that ends well has written the artifact.
OverlapSpawn(w) ==
    /\ OverlapAt(w, "spawn")
    /\ \E r \in Outcomes \cup {NotStarted} :
        LET step   == Branch(language, runFile)[workers[w].step]
            builds == step.show = "failed" /\ r.code = 0
        IN  /\ r.missing => (step.exe \in PathTools /\ step.exe \notin pathHas)
            /\ (~r.missing /\ step.exe \in PathTools) => step.exe \notin pathLacks
            /\ pathHas' = IF ~r.missing /\ step.exe \in PathTools
                          THEN pathHas \cup {step.exe} ELSE pathHas
            /\ pathLacks' = IF r.missing /\ step.exe \in PathTools
                            THEN pathLacks \cup {step.exe} ELSE pathLacks
            /\ artifact' = IF builds THEN w ELSE artifact
            /\ Handled(w, r, artifact')
    /\ UNCHANGED <<language, buf, insert, sel, event, pre, orig, hlVars, timerVars,
                   stopEvent, runs, appendVars, indexVars, fileVars, runFile,
                   hasCsproj, runPc, runStep, probes, spawns, browser, status>>

\* finally: self.update_status("Ready"), and the thread of worker w ends.
OverlapFinally(w) ==
    /\ workers[w].pc = "finally"
    /\ status' = "Ready"
    /\ workers' = [workers EXCEPT ![w].pc = "done"]
    /\ UNCHANGED <<language, buf, insert, sel, event, pre, orig, hlVars, timerVars,
                   artifact, stopEvent, runs, appendVars, indexVars, fileVars,
                   runFile, hasCsproj, pathHas, pathLacks, runPc, runStep, probes,
                   spawns, browser, console>>

\* The tab shows the file main of one of the languages, opened before.
InitOverlap ==
    /\ language \in OverlapLanguages
    /\ buf = <<>> /\ insert = 0 /\ sel = NoSel
    /\ event = NoEvent /\ pre = EmptyState /\ orig = EmptyState
    /\ RunIdle
    /\ AsideIdle
    /\ langVar = "python"
    /\ filepath = <<"main", LANG_EXT[language]>>
    /\ title = filepath
    /\ written = filepath
    /\ fileEvent = FileEvent("open", TRUE)
    /\ fileOps = 0
    /\ HighlightIdle

\* Run is pressed again and again.
NextOverlap ==
    \/ Run(MaxRuns)
    \/ \E w \in DOMAIN workers : OverlapProbe(w)
    \/ \E w \in DOMAIN workers : OverlapSpawn(w)
    \/ \E w \in DOMAIN workers : OverlapFinally(w)

SpecOverlap == InitOverlap /\ [][NextOverlap]_vars

\* Run and Stop are pressed.
NextStop ==
    \/ Run(MaxStopRuns)
    \/ Stop
    \/ \E w \in DOMAIN workers : OverlapProbe(w)
    \/ \E w \in DOMAIN workers : OverlapSpawn(w)
    \/ \E w \in DOMAIN workers : OverlapFinally(w)

SpecStop == InitOverlap /\ [][NextStop]_vars

(***************************************************************************)
(* Run pressed among the file operations: run_current from its beginning,  *)
(* for a tab with or without a file.                                       *)
(***************************************************************************)
\* The rest of run_current once tab.filepath is set: the "Running" line after
\* what was said before, the status, the stop flag, and the worker thread.
StartRun(said) ==
    /\ console' = Append(said, Line("running", ""))
    /\ status' = "Running..."
    /\ stopEvent' = FALSE
    /\ runs' = runs + 1
    /\ workers' = IF StartsWorker(workers) THEN Append(workers, NewWorker) ELSE workers

\* run_current returns before the "Running" line.
NoRun == UNCHANGED <<console, status, stopEvent, runs, workers>>

\* run_current.  A tab without a file: the user is asked whether to save
\* (res), and on yes save_file_as runs, the dialog being answered with a name
\* or cancelled; tab.save sets the path, fixes its suffix and writes the
\* file, and save_file_as catches a failed write and shows a dialog.  Then
\* run_current goes on when tab.filepath is set.
RunCurrentTab ==
    /\ fileOps < MaxFileOps
    /\ fileOps' = fileOps + 1
    /\ IF filepath # NoPath
       THEN /\ StartRun(console)
            /\ fileEvent' = FileEvent("run", TRUE)
            /\ UNCHANGED <<filepath, title, written>>
       ELSE \E res \in BOOLEAN, name \in DialogNames \cup {NoPath}, ok \in BOOLEAN :
            IF ~res
            THEN /\ NoRun
                 /\ fileEvent' = FileEvent("run_declined", TRUE)
                 /\ UNCHANGED <<filepath, title, written>>
            ELSE IF name = NoPath
            THEN /\ NoRun
                 /\ fileEvent' = FileEvent("run_cancelled", TRUE)
                 /\ UNCHANGED <<filepath, title, written>>
            ELSE LET target == FixSuffix(language, FixSuffix(language, name)) IN
                 /\ filepath' = target
                 /\ title' = IF ok THEN target ELSE title
                 /\ written' = IF ok THEN target ELSE written
                 /\ fileEvent' = FileEvent(IF ok THEN "run_saved" ELSE "run_save_failed", ok)
                 /\ StartRun(IF ok THEN Append(console, Line("saved", "save_as"))
                             ELSE console)
    /\ UNCHANGED <<language, buf, insert, sel, event, pre, orig, hlVars, timerVars,
                   artifact, appendVars, indexVars, langVar, runFile, hasCsproj,
                   pathHas, pathLacks, runPc, runStep, probes, spawns, browser>>

NextRunTab ==
    \/ \E v \in SelectorValues : SelectLanguage(v)
    \/ NewFile
    \/ \E name \in OpenNames : OpenFile(name)
    \/ SaveFile
    \/ SaveFileAs
    \/ RunCurrentTab

SpecRunTab == InitFiles /\ [][NextRunTab]_vars

(***************************************************************************)
(* append_console called from two threads at once: a run worker and the    *)
(* interactive thread, or two run workers.  Nothing in append_console      *)
(* keeps the threads apart, so their calls on the widget interleave.       *)
(***************************************************************************)
MaxAppends == 2     \* most calls of append_console by one thread

\* The threads, and the text each of them appends.
Appenders == {1, 2}

TextOf(t) == Line("text", IF t = 1 THEN "first" ELSE "second")

\* console.insert("end", text) on a Text widget in the given state: a
\* disabled widget ignores insertions.
InsertAtEnd(state, content, text) ==
    IF state = "normal" THEN Append(content, text) ELSE content

\* What a step of append_console leaves alone.
ConsoleFrame ==
    UNCHANGED <<language, buf, insert, sel, event, pre, orig, hlVars, timerVars,
                overlapVars, indexVars, fileVars, runFile, hasCsproj, pathHas,
                pathLacks, runPc, runStep, probes, spawns, browser, status>>

\* Thread t enters append_console: self.console.config(state="normal")
ConsoleEnable(t) ==
    /\ appenders[t].pc = "enable"
    /\ appenders[t].done < MaxAppends
    /\ widget' = "normal"
    /\ appenders' = [appenders EXCEPT ![t].pc = "insert"]
    /\ UNCHANGED console
    /\ ConsoleFrame

\* self.console.insert("end", text); self.console.see("end")
ConsoleInsert(t) ==
    /\ appenders[t].pc = "insert"
    /\ console' = InsertAtEnd(widget, console, TextOf(t))
    /\ appenders' = [appenders EXCEPT ![t].pc = "disable"]
    /\ UNCHANGED widget
    /\ ConsoleFrame

\* self.console.config(state="disabled"), and the call returns
ConsoleDisable(t) ==
    /\ appenders[t].pc = "disable"
    /\ widget' = "disabled"
    /\ appenders' = [appenders EXCEPT ![t] = [pc |-> "enable", done |-> @.done + 1]]
    /\ UNCHANGED console
    /\ ConsoleFrame

InitConsole ==
    /\ language = "python"
    /\ buf = <<>> /\ insert = 0 /\ sel = NoSel
    /\ event = NoEvent /\ pre = EmptyState /\ orig = EmptyState
    /\ RunIdle
    /\ workers = <<>> /\ artifact = 0 /\ stopEvent = FALSE /\ runs = 0
    /\ FilesIdle
    /\ HighlightIdle
    /\ widget = "disabled"
    /\ appenders = [t \in Appenders |-> [pc |-> "enable", done |-> 0]]
    /\ idxText = <<>> /\ idxPos = 0 /\ idxOut = <<0, 0>>

NextConsole ==
    \/ \E t \in Appenders : ConsoleEnable(t)
    \/ \E t \in Appenders : ConsoleInsert(t)
    \/ \E t \in Appenders : ConsoleDisable(t)

SpecConsole == InitConsole /\ [][NextConsole]_vars

(***************************************************************************)
(* The editor as a state machine: a tab holding some text, with the cursor *)
(* and the selection anywhere in it, receives an event.                    *)
(***************************************************************************)
\* The tab holds a text over the characters cs, at most n long.
InitText(langs, cs, n, withSel) ==
    /\ language \in langs
    /\ buf \in TextsUpTo(cs, n)
    /\ insert \in 0..Len(buf)
    /\ sel \in (IF withSel THEN Selections(buf) ELSE {NoSel})
    /\ event = NoEvent
    /\ pre = EmptyState
    /\ orig = EditState(buf, insert, sel)
    /\ RunIdle
    /\ AsideIdle
    /\ FilesIdle

\* The same, with the highlighting idle.
InitEdit(langs, cs, n, withSel) ==
    /\ InitText(langs, cs, n, withSel)
    /\ HighlightIdle

\* Whether the handler of the event called schedule_highlight: on_return_key
\* and toggle_comment do, _on_keypress does after inserting a pair.
Schedules(op, ch) ==
    \/ op \in {"return", "toggle"}
    \/ op = "key" /\ ch \in DOMAIN PAIRS

\* The tab goes from Cur to r.st on the event op.  The syntax tags stay on
\* the characters that carry them; the tabs of this model are edited in the
\* middle only while they carry none.
Handle(op, ch, r) ==
    /\ buf' = r.st.buf
    /\ insert' = r.st.insert
    /\ sel' = r.st.sel
    /\ event' = [op |-> op, ch |-> ch, ret |-> r.ret, n |-> event.n + 1]
    /\ pre' = Cur
    /\ IF Schedules(op, ch)
       THEN ScheduleHighlight
       ELSE UNCHANGED <<afterId, timers, nextId>>
    /\ UNCHANGED <<language, orig, runVars, fileVars, hlVars, clock, strokes, passLog,
                   asideVars>>

\* Characters of the texts that keys are typed into, and the keys typed.
KeyChars == {"(", ")", "\"", "a"}

TypedChars == Openers \cup PairValues \cup {"a"}

InitKeys == InitEdit({"python"}, KeyChars, MaxKeyLen, TRUE)

\* <KeyPress> with event.char = ch
KeyPress(ch) ==
    /\ event.n < MaxEvents
    /\ Handle("key", ch, KeyResult(Cur, ch))

NextKeys == \E ch \in TypedChars : KeyPress(ch)

SpecKeys == InitKeys /\ [][NextKeys]_vars

\* Characters of the texts Backspace is pressed in.
BsChars == {"(", ")", "\"", " ", NL}

InitBackspace == InitEdit({"python"}, BsChars, MaxBsLen, FALSE)

\* <BackSpace>
Backspace ==
    /\ event.n < MaxEvents
    /\ Handle("backspace", "", BackspaceResult(Cur))

NextBackspace == Backspace

SpecBackspace == InitBackspace /\ [][NextBackspace]_vars

\* Characters of the texts Return is pressed in.
RetChars == {" ", ":", "{", "}", "a", NL}

InitReturn == InitEdit({"python", "c"}, RetChars, MaxRetLen, FALSE)

\* <Return>
ReturnKey ==
    /\ event.n < MaxEvents
    /\ Handle("return", "", OnReturnKey(language, Cur))

NextReturn == ReturnKey

SpecReturn == InitReturn /\ [][NextReturn]_vars

\* Characters of the texts whose lines are toggled.
CmtChars == {"#", "/", " ", "a", NL}

InitComment == InitEdit({"python", "c"}, CmtChars, MaxCmtLen, TRUE)

\* <Control-slash>
Toggle ==
    /\ event.n < MaxToggles
    /\ Handle("toggle", "", ToggleComment(language, Cur))

NextComment == Toggle

SpecComment == InitComment /\ [][NextComment]_vars

(***************************************************************************)
(* The highlighting as a state machine: a tab over a text that was just    *)
(* loaded, with the cursor at its end, is typed into and highlighted when  *)
(* the callback that schedule_highlight left with Tk comes due.            *)
(***************************************************************************)
MaxHlLen == 2       \* longest text that is loaded into a highlighted tab
MaxStrokes == 2     \* key releases one tab receives
MaxClock == 7       \* last time a key is released at

\* on_key_release: <KeyRelease>, for one of the first most keys (a key that
\* types nothing, a modifier or an arrow, is released like any other)
KeyRelease(most) ==
    /\ Len(strokes) < most
    /\ ScheduleHighlight
    /\ strokes' = Append(strokes, clock)
    /\ UNCHANGED <<language, buf, insert, sel, event, pre, orig, hlVars, clock,
                   passLog, runVars, fileVars, asideVars>>

\* Time passes.
Tick ==
    /\ clock < MaxClock
    /\ clock' = clock + 1
    /\ UNCHANGED <<language, buf, insert, sel, event, pre, orig, hlVars, afterId,
                   timers, nextId, strokes, passLog, runVars, fileVars, asideVars>>

\* A pending callback comes due, at its time or later, and Tk runs it:
\* highlight_syntax.
HighlightDue ==
    \E t \in timers :
        LET r == HighlightSyntax(tagged, language, buf, usePygments, lexFault) IN
        /\ timers' = timers \ {t}
        /\ clock' = Max(clock, t.due)
        /\ tagged' = r.tagged
        /\ spans' = r.spans
        /\ hlEvent' = HlEvent("pass", r.raised, r.raised \/ ~usePygments)
        /\ lastPass' = IF passLog = <<>> THEN NoPass
                       ELSE [ran |-> TRUE, buf |-> passLog[Len(passLog)].buf,
                             tagged |-> tagged]
        /\ passLog' = Append(passLog, [at |-> clock', strokes |-> Len(strokes),
                                       buf |-> buf])
        /\ UNCHANGED <<language, buf, insert, sel, event, pre, orig, usePygments,
                       lexFault, afterId, nextId, strokes, runVars, fileVars,
                       asideVars>>

\* Characters of the texts that are highlighted, the languages of their tabs
\* and the keys typed at their ends.
HlChars == {"#", "\"", "i", "f", NL}

HlLangs == {"python", "c", "text"}

HlTyped == {"f"}

\* After how many tokens lex() raises in a tab: never, at once, after one.
LexFaults == {-1, 0, 1}

\* open_file has loaded a text into a new tab and called schedule_highlight.
InitHighlight ==
    /\ InitText(HlLangs, HlChars, MaxHlLen, FALSE)
    /\ insert = Len(buf)
    /\ usePygments \in BOOLEAN
    /\ lexFault \in (IF usePygments THEN LexFaults ELSE {-1})
    /\ tagged = {}
    /\ spans = <<>>
    /\ hlEvent = HlEvent("none", FALSE, FALSE)
    /\ lastPass = NoPass
    /\ afterId = 1
    /\ timers = {[id |-> 1, due |-> Delay]}
    /\ nextId = 2
    /\ clock = 0
    /\ strokes = <<>>
    /\ passLog = <<>>

NextHighlight ==
    \/ \E ch \in HlTyped : KeyPress(ch)
    \/ KeyRelease(event.n + 1)
    \/ HighlightDue

SpecHighlight == InitHighlight /\ [][NextHighlight]_vars

\* A new tab, in which keys are pressed and released while time passes.
InitDebounce == InitEdit({"python"}, {"i"}, 1, FALSE)

NextDebounce ==
    \/ KeyRelease(MaxStrokes)
    \/ Tick
    \/ HighlightDue

SpecDebounce == InitDebounce /\ [][NextDebounce]_vars

(***************************************************************************)
(* _index_from_pos on its own: it is called with a text and an offset      *)
(* into it.                                                                *)
(***************************************************************************)
MaxIdxLen == 4      \* longest text an offset is converted in

\* Everything but the call of _index_from_pos is at rest.
InitIndex ==
    /\ language = "python"
    /\ buf = <<>> /\ insert = 0 /\ sel = NoSel
    /\ event = NoEvent /\ pre = EmptyState /\ orig = EmptyState
    /\ RunIdle
    /\ workers = <<>> /\ artifact = 0 /\ stopEvent = FALSE /\ runs = 0
    /\ FilesIdle
    /\ HighlightIdle
    /\ widget = "disabled" /\ appenders = <<>>
    /\ idxText \in TextsUpTo({"a", NL}, MaxIdxLen)
    /\ idxPos \in 0..Len(idxText)
    /\ idxOut = <<0, 0>>

\* The call _index_from_pos(idxPos, idxText)
IndexCall ==
    /\ idxOut = <<0, 0>>
    /\ idxOut' = IndexFromPos(idxPos, idxText)
    /\ UNCHANGED <<language, buf, insert, sel, event, pre, orig, hlVars, timerVars,
                   overlapVars, appendVars, idxText, idxPos, runVars, fileVars>>

NextIndex == IndexCall

SpecIndex == InitIndex /\ [][NextIndex]_vars

(***************************************************************************)
(* Claims about the editing aids.                                          *)
(***************************************************************************)
\* The opening and closing characters as the claims list them.
ClaimPairs == {<<"(", ")">>, <<"[", "]">>, <<"{", "}">>,
               <<"\"", "\"">>, <<"'", "'">>, <<Backtick, Backtick>>}

\* text with the characters between offsets a and b replaced by mid.
Spliced(text, a, b, mid) == SubSeq(text, 1, a) \o mid \o SubSeq(text, b + 1, Len(text))

\* C7: typing an opening character of the pair table with no selection
\* inserts it and its closing character at the cursor and leaves the cursor
\* between them; with a selection S it replaces S by opening+S+closing,
\* leaves exactly S selected and changes nothing else in the buffer.
C7_AutoPair ==
    \A p \in ClaimPairs :
        (event.op = "key" /\ event.ch = p[1]) =>
            IF pre.sel = NoSel
            THEN /\ buf = Spliced(pre.buf, pre.insert, pre.insert, <<p[1], p[2]>>)
                 /\ insert = pre.insert + 1
            ELSE LET s == pre.sel[1]
                     e == pre.sel[2]
                     S == SubSeq(pre.buf, s + 1, e)
                 IN  /\ buf = Spliced(pre.buf, s, e, <<p[1]>> \o S \o <<p[2]>>)
                     /\ sel = <<s + 1, e + 1>>
                     /\ SubSeq(buf, sel[1] + 1, sel[2]) = S

\* A quote typed around the selected middle character of three: the
\* selection is wrapped and selected again.
C7_Witness ==
    /\ event.op = "key" /\ event.ch = "\""
    /\ pre.buf = <<"(", "a", ")">> /\ pre.sel = <<1, 2>>
    /\ buf = <<"(", "\"", "a", "\"", ")">> /\ sel = <<2, 3>>

\* C8: typing a closing character of the pair table when that character is
\* already the one right after the cursor changes nothing in the buffer and
\* moves the cursor one position right.
C8_CloserAbsorbed ==
    \A p \in ClaimPairs :
        (/\ event.op = "key" /\ event.ch = p[2]
         /\ pre.insert < Len(pre.buf)
         /\ pre.buf[pre.insert + 1] = p[2])
        => (buf = pre.buf /\ insert = pre.insert + 1)

C9_WitnessIndent ==
    /\ event.op = "backspace"
    /\ pre.buf = <<" ", " ", " ", " ">> /\ pre.insert = 4
    /\ buf = <<>>

\* C10: Return at the end of a line gives the new line the leading
\* whitespace of the line the cursor was on, plus four spaces if that line,
\* without its trailing whitespace, ends with ":" (python) or "{".
C10_AutoIndent ==
    LET line    == LineOf(pre.buf, pre.insert)
        curLine == LineText(pre.buf, line)
        more    == \/ language = "python" /\ EndsWith(RStrip(curLine), ":")
                   \/ EndsWith(RStrip(curLine), "{")
    IN  (event.op = "return" /\ pre.insert = LineEnd(pre.buf, line)) =>
            LeadingSpace(LineText(buf, line + 1))
                = LeadingSpace(curLine) \o (IF more THEN IndentUnit ELSE <<>>)

\* The characters of the cursor's line from the cursor on, without their
\* leading whitespace.
AfterCursor(st) ==
    LStrip(Get(st.buf, st.insert, LineEnd(st.buf, LineOf(st.buf, st.insert))))

\* C11: Return with only whitespace between the cursor and a closing "}" or
\* ")" on the cursor's line inserts two line breaks, leaves the cursor on the
\* first of the two new lines and the closing character as the first
\* non-space character of the second.
C11_ReturnBeforeCloser ==
    LET line == LineOf(pre.buf, pre.insert) IN
    (/\ event.op = "return"
     /\ AfterCursor(pre) # <<>>
     /\ AfterCursor(pre)[1] \in {"}", ")"})
    => /\ NumLines(buf) = NumLines(pre.buf) + 2
       /\ LineOf(buf, insert) = line + 1
       /\ LStrip(LineText(buf, line + 2)) = AfterCursor(pre)

\* C1: in a python tab, for lines none of which is blank or has "#" as its
\* first non-space character, a comment toggle makes every line of the range
\* start with "# " and a second toggle on the range restores the buffer
\* character for character.
C1_ToggleRoundTrip ==
    LET ls == ToggleLines(orig)
        plain(t) == LStrip(t) # <<>> /\ LStrip(t)[1] # "#"
    IN  (/\ language = "python"
         /\ event.op = "toggle"
         /\ \A l \in ls : plain(LineText(orig.buf, l)))
        => /\ event.n = 1 =>
                \A l \in ls : StartsWith(LineText(buf, l), <<"#", " ">>)
           /\ event.n = 2 => buf = orig.buf

(***************************************************************************)
(* Claims about the highlighting.                                          *)
(***************************************************************************)
\* Whether the text is as the last highlighting pass found it.
JustHighlighted == passLog # <<>> /\ passLog[Len(passLog)].buf = buf

\* C12: every range the regex fallback tags in a pass lies within the text:
\* 0 <= start <= end <= len(text), whatever the language of the tab, with
\* or without a rule set for it.
C12_FallbackSpansInText ==
    JustHighlighted =>
        \A k \in 1..Len(spans) :
            /\ 0 <= spans[k].start
            /\ spans[k].start <= spans[k].end
            /\ spans[k].end <= Len(buf)

\* The fallback has tagged a comment that runs to the end of a python text
\* and a keyword in it.
C12_Witness ==
    /\ JustHighlighted /\ hlEvent.basic /\ language = "python"
    /\ buf = <<"#", "i", "f">>
    /\ spans = <<[tag |-> "comment", start |-> 0, end |-> 3],
                 [tag |-> "kw", start |-> 1, end |-> 3]>>

\* C13: after a highlighting pass no character of the text carries more
\* than one syntax tag.
C13_SpansDoNotOverlap ==
    JustHighlighted =>
        \A t1 \in tagged, t2 \in tagged : t1[2] = t2[2] => t1[1] = t2[1]

\* C14: after a highlighting pass the tags are those a pass leaves on the
\* same text in a tab that carried none, and a pass over the text the pass
\* before it ran over leaves the same tags.
C14_PassReplacesSpans ==
    JustHighlighted =>
        /\ tagged = HighlightSyntax({}, language, buf, usePygments, lexFault).tagged
        /\ (lastPass.ran /\ lastPass.buf = buf) => tagged = lastPass.tagged

\* A second pass has run after "f" was typed behind the keyword "if": the
\* keyword's tag is gone.
C14_Witness ==
    /\ JustHighlighted /\ language = "python"
    /\ Len(passLog) = 2 /\ passLog[1].buf = <<"i", "f">>
    /\ lastPass.tagged = {<<"kw", 0>>, <<"kw", 1>>}
    /\ buf = <<"i", "f", "f">> /\ tagged = {}

\* C15: when the lexer strategy raised in a pass, the tags the pass leaves
\* are exactly those of the regex fallback for the text and the language.
C15_FallbackAfterLexerFailure ==
    (JustHighlighted /\ hlEvent.raised) =>
        tagged = BasicHighlight({}, language, buf)

(***************************************************************************)
(* Claims about the run dispatcher.                                        *)
(***************************************************************************)
\* What the worker has appended: the console after run_current's own line.
WorkerLines == SubSeq(console, 2, Len(console))

\* The compile-then-execute languages and their compilers, as C2 lists them.
ClaimCompiler ==
    [l \in {"c", "cpp", "c++", "rust", "java", "kotlin", "typescript"} |->
        CASE l = "c" -> "gcc"
          [] l \in {"cpp", "c++"} -> "g++"
          [] l = "rust" -> "rustc"
          [] l = "java" -> "javac"
          [] l = "kotlin" -> "kotlinc"
          [] l = "typescript" -> "tsc"]

\* C2: for a compile-then-execute language the first process is the compiler,
\* a second process is spawned only after the compiler returned 0, and after
\* a non-zero code the worker spawns nothing more and has appended only the
\* compiler's non-empty stdout and stderr.
C2_CompileGatesExecute ==
    (language \in DOMAIN ClaimCompiler /\ Len(spawns) >= 1) =>
        /\ spawns[1].exe = ClaimCompiler[language]
        /\ Len(spawns) >= 2 => spawns[1].code = 0
        /\ spawns[1].code # 0 =>
            /\ Len(spawns) = 1
            /\ WorkerLines =
                  (IF spawns[1].out # ""
                   THEN <<Line("stdout", ClaimCompiler[language])>> ELSE <<>>)
                  \o (IF spawns[1].err # ""
                      THEN <<Line("stderr", ClaimCompiler[language])>> ELSE <<>>)

\* A C run has ended after gcc failed: one process, its stderr on the console.
C2_Witness ==
    /\ language = "c" /\ runPc = "done"
    /\ Len(spawns) = 1 /\ spawns[1].exe = "gcc" /\ spawns[1].code = 1
    /\ WorkerLines = <<Line("stderr", "gcc")>>

\* The toolchain each language requires, as C3 lists it (node for javascript).
ClaimToolchain(l) ==
    CASE l = "c" -> {"gcc"}
      [] l \in {"cpp", "c++"} -> {"g++"}
      [] l = "rust" -> {"rustc"}
      [] l = "go" -> {"go"}
      [] l = "java" -> {"javac", "java"}
      [] l \in {"typescript", "ts"} -> {"tsc"}
      [] l = "lua" -> {"lua"}
      [] l = "csharp" -> {"dotnet"}
      [] l = "ruby" -> {"ruby"}
      [] l = "kotlin" -> {"kotlinc"}
      [] l = "nix" -> {"nix"}
      [] l \in {"javascript", "js"} -> {"node"}
      [] OTHER -> {}

\* A which() call of this run found a tool of the language's toolchain missing.
ToolchainMissing ==
    \E i \in 1..Len(probes) :
        probes[i].tool \in ClaimToolchain(language) /\ ~probes[i].found

\* C3: when the probe for the language's toolchain fails, the worker spawns
\* no process and appends exactly one line, which reports the tool as not
\* found; the browser is opened, and the line notes it, only for javascript.
C3_MissingToolchain ==
    ToolchainMissing =>
        /\ spawns = <<>>
        /\ Len(WorkerLines) = 1
        /\ WorkerLines[1].kind =
              (IF language \in {"javascript", "js"}
               THEN "notfound_browser" ELSE "notfound")
        /\ language = "ruby" => WorkerLines[1].about = "ruby"
        /\ (browser # <<>>) <=> (language \in {"javascript", "js"})

\* A Ruby run has ended with ruby missing: no process, the one line.
C3_Witness ==
    /\ language = "ruby" /\ runPc = "done"
    /\ probes = <<[tool |-> "ruby", found |-> FALSE]>>
    /\ spawns = <<>>
    /\ console = <<Line("running", ""), Line("notfound", "ruby")>>

\* C4: every executable the worker has spawned by name was found present by
\* a which() call earlier in the run, and no spawn has failed for a missing
\* executable.
C4_SpawnsWereProbed ==
    \A i \in 1..Len(spawns) :
        /\ spawns[i].exe \in PathTools =>
              \E j \in 1..Len(probes) :
                  probes[j].tool = spawns[i].exe /\ probes[j].found
        /\ ~spawns[i].missing

\* C6: a language of the language-to-extension table is never reported as
\* unknown, and a run that reports an unknown language spawns no process and
\* opens no browser.
C6_TableLanguagesRun ==
    LET unknown == \E i \in 1..Len(console) : console[i].kind = "unknown" IN
    /\ language \in LangExtKeys => ~unknown
    /\ unknown => spawns = <<>> /\ browser = <<>>

RECURSIVE OutputOf(_, _)
\* The non-empty stdout and stderr of the process steps from the k-th on, in
\* step order.
OutputOf(sp, k) ==
    IF k > Len(sp) THEN <<>>
    ELSE Output(sp[k].exe, sp[k]) \o OutputOf(sp, k + 1)

\* C16: in every run, a process step is spawned only after every step before
\* it returned 0, and a step that returned another code has its non-empty
\* stdout and stderr as the last lines of the console.
C16_FailedStepEndsRun ==
    \A i \in 1..Len(spawns) :
        spawns[i].code # 0 =>
            /\ i = Len(spawns)
            /\ LET shown == Output(spawns[i].exe, spawns[i]) IN
               /\ Len(WorkerLines) >= Len(shown)
               /\ SubSeq(WorkerLines, Len(WorkerLines) - Len(shown) + 1,
                         Len(WorkerLines)) = shown

\* C17: when a run has ended, the output lines on the console are the
\* non-empty stdout and stderr of every process step it spawned, in step
\* order, whatever the steps' exit codes.
C17_EveryStepOutputShown ==
    runPc = "done" =>
        SelectSeq(WorkerLines, LAMBDA l : l.kind \in {"stdout", "stderr"})
            = OutputOf(spawns, 1)

\* C19: a process step that could not be spawned or timed out is recorded
\* as code -1 with empty stdout and the exception text as stderr; when that
\* is the compile step of a compile-then-execute language, the exception
\* text is the only line the worker appends and no second step is spawned.
C19_SpawnFailureIsATriple ==
    /\ \A i \in 1..Len(spawns) :
          /\ spawns[i].code \in {-1, 0, 1}
          /\ spawns[i].code = -1 =>
                spawns[i].out = "" /\ spawns[i].err = "exception"
    /\ (language \in DOMAIN ClaimCompiler /\ Len(spawns) >= 1
            /\ spawns[1].code = -1) =>
          /\ Len(spawns) = 1
          /\ runPc \in {"finally", "done"}
          /\ WorkerLines = <<Line("stderr", ClaimCompiler[language])>>

\* A Rust run has ended after rustc timed out: the exception text is on the
\* console and the artifact was not run.
C19_Witness ==
    /\ language = "rust" /\ runPc = "done"
    /\ spawns = <<[exe |-> "rustc", code |-> -1, out |-> "",
                   err |-> "exception", missing |-> FALSE]>>
    /\ console = <<Line("running", ""), Line("stderr", "rustc")>>

(***************************************************************************)
(* Claims about files.                                                     *)
(***************************************************************************)
\* The canonical extension of a tab's language as C5 has it: the table's,
\* with ".cpp" and ".cs" for the selector's C++ and C#.
ClaimExt(lang) ==
    CASE lang \in LangExtKeys -> LANG_EXT[lang]
      [] lang = "c++" -> ".cpp"
      [] lang = "c#" -> ".cs"
      [] OTHER -> ""

\* C5: after a successful Save or Save As the suffix of the tab's file path
\* is, up to letter case, the canonical extension of the tab's language.
C5_SavedSuffixIsCanonical ==
    (fileEvent.op \in {"save", "save_as"} /\ fileEvent.ok) =>
        LowerExt(Suffix(filepath)) = ClaimExt(language)

\* C18: a Save or Save As whose write failed leaves the tab's file path and
\* title as they were before it and appends nothing to the console.
C18_FailedSaveChangesNothing ==
    (fileEvent.op \in {"save", "save_as"} /\ ~fileEvent.ok) =>
        /\ filepath = fileEvent.path
        /\ title = fileEvent.title
        /\ Len(console) = fileEvent.lines

(***************************************************************************)
(* Claims about the debounce.                                              *)
(***************************************************************************)
\* C20: at most one highlight callback is pending, and after a key release
\* it is the one scheduled then, due the delay later; every pass the timer
\* runs comes the delay or more after the last key release before it, a key
\* was released between any two passes, and no pass runs between two key
\* releases that are less than the delay apart.
C20_Debounce ==
    /\ Cardinality(timers) <= 1
    /\ \A t \in timers :
          strokes # <<>> =>
              t.id = afterId /\ t.due = strokes[Len(strokes)] + Delay
    /\ \A k \in 1..Len(passLog) :
          /\ passLog[k].strokes >= 1
          /\ passLog[k].at >= strokes[passLog[k].strokes] + Delay
    /\ \A k \in 1..(Len(passLog) - 1) :
          passLog[k].strokes < passLog[k + 1].strokes
    /\ \A i \in 1..(Len(strokes) - 1) :
          strokes[i + 1] - strokes[i] < Delay =>
              \A k \in 1..Len(passLog) : passLog[k].strokes # i

\* Two keys were released one unit apart and one pass has run, the delay
\* after the second.
C20_Witness ==
    /\ strokes = <<0, 1>>
    /\ Len(passLog) = 1 /\ passLog[1].strokes = 2 /\ passLog[1].at = 1 + Delay
    /\ timers = {}

(***************************************************************************)
(* Claims about _index_from_pos.                                           *)
(***************************************************************************)
\* The offsets of the newlines before offset p of text: a newline at offset
\* i is the character text[i + 1], and it lies before p when i < p.
NewlinesBefore(text, p) == {i \in 0..(p - 1) : text[i + 1] = NL}

\* The greatest of a non-empty set of numbers.
Greatest(S) == CHOOSE i \in S : \A j \in S : i >= j

\* C26 as stated: the line is the number of newlines before p plus 1, and
\* the column is p minus the offset of the last newline before p, or p when
\* there is none.
C26_IndexAsStated ==
    idxOut # <<0, 0>> =>
        LET nls == NewlinesBefore(idxText, idxPos) IN
        /\ idxOut[1] = Cardinality(nls) + 1
        /\ idxOut[2] = IF nls = {} THEN idxPos ELSE idxPos - Greatest(nls)

\* C26 as amended: the line is the number of newlines before p plus 1, and
\* the column is the number of characters between the last newline before p
\* and p, that is p minus the offset of that newline minus 1, or p when
\* there is none.
C26_IndexFromPos ==
    idxOut # <<0, 0>> =>
        LET nls == NewlinesBefore(idxText, idxPos) IN
        /\ idxOut[1] = Cardinality(nls) + 1
        /\ idxOut[2] = IF nls = {} THEN idxPos ELSE idxPos - Greatest(nls) - 1

\* Offset 3 of "a", newline, "a" was converted: line 2, column 1.
C26_Witness ==
    /\ idxText = <<"a", NL, "a">> /\ idxPos = 3
    /\ idxOut = <<2, 1>>

(***************************************************************************)
(* Claims about overlapping runs and Stop.                                 *)
(***************************************************************************)
\* The steps a worker handled are the steps of its branch, one after the
\* other from the first.
InOrder(me) ==
    /\ \A i \in DOMAIN me.did : me.did[i].n = i
    /\ me.pc = "running" => me.step = Len(me.did) + 1

\* C21: every Run starts exactly one worker, also while earlier workers are
\* active, and every worker goes through the steps of its branch strictly
\* one after the other.
C21_RunsOverlap ==
    /\ Len(workers) = runs
    /\ \A w \in DOMAIN workers : InOrder(workers[w])

\* Worker 1 compiled the C file, worker 2 then compiled it again into the
\* same artifact, and worker 1 then executed what worker 2 had built.
C21_Witness ==
    /\ language = "c"
    /\ Len(workers) = 2
    /\ Len(workers[1].did) = 3
    /\ workers[1].did[2].r.code = 0 /\ workers[1].did[2].built = 1
    /\ workers[1].did[3].built = 2

RECURSIVE SaidUpTo(_, _, _)
\* What the outcomes d[1..n] of the steps of plan make a worker append.
SaidUpTo(plan, d, n) ==
    IF n = 0 THEN <<>> ELSE SaidUpTo(plan, d, n - 1) \o Said(plan[n], d[n].r)

\* The steps a worker took and what it appended follow from the outcomes of
\* its steps alone: no step but the last ended the run, a worker that ended
\* had come to the end of its branch or to an outcome that ends the run, and
\* it appended what these outcomes call for.
Unstopped(me) ==
    LET plan == Branch(language, runFile)
        d    == me.did
    IN  /\ InOrder(me)
        /\ \A i \in 1..(Len(d) - 1) : ~Ends(plan[i], d[i].r)
        /\ me.pc \in {"finally", "done"} =>
                /\ d # <<>>
                /\ Len(d) = Len(plan) \/ Ends(plan[Len(d)], d[Len(d)].r)
        /\ me.said = SaidUpTo(plan, d, Len(d))

\* C22: Stop sets the stop flag, appends its message and sets the status to
\* "Stopped", and nothing else; whenever Stop is pressed, every worker takes
\* the steps and appends the output that the outcomes of its steps call for.
C22_StopChangesNoRun ==
    /\ [](\A w \in DOMAIN workers : Unstopped(workers[w]))
    /\ [][(Stops' = Stops + 1) =>
            /\ stopEvent' = TRUE
            /\ console' = Append(console, Line("stop", ""))
            /\ status' = "Stopped"
            /\ workers' = workers
            /\ artifact' = artifact]_vars

\* A worker of a C file ended after it compiled and executed the file with
\* the stop flag set, Stop having been pressed after its probe.
C22_Witness ==
    /\ language = "c"
    /\ Stops >= 1
    /\ \E w \in DOMAIN workers :
        /\ workers[w].pc = "done"
        /\ Len(workers[w].did) = 3
        /\ ~workers[w].did[1].flag
        /\ workers[w].did[2].flag /\ workers[w].did[3].flag
        /\ workers[w].did[3].r.code = 0

\* C25: the status is not "Ready" while a worker is active.
C25_NeverReadyWhileActive ==
    status = "Ready" => \A w \in DOMAIN workers : workers[w].pc = "done"

(***************************************************************************)
(* Claims about Run on a tab without a file.                               *)
(***************************************************************************)
\* C23: Run on a tab without a file starts no worker and prints nothing when
\* the user declines the prompt, cancels the dialog or the save fails; a
\* worker is started only when the tab's file was written or opened.
C23_RunNeedsWrittenFile ==
    /\ fileEvent.op \in {"run_declined", "run_cancelled", "run_save_failed"} =>
            /\ Len(workers) = fileEvent.workers
            /\ Len(console) = fileEvent.lines
    /\ (fileEvent.op \in {"run", "run_saved", "run_save_failed"}
            /\ Len(workers) > fileEvent.workers) =>
            (filepath # NoPath /\ written = filepath)

(***************************************************************************)
(* Claims about the console.                                               *)
(***************************************************************************)
\* How often the console holds the text of thread t.
TimesShown(t) == Cardinality({i \in DOMAIN console : console[i] = TextOf(t)})

\* C24: once no thread is inside append_console, the console holds every
\* text that was appended, each exactly once, however the steps of the
\* calls interleaved.
C24_NoConsoleTextLost ==
    (\A t \in Appenders : appenders[t].pc = "enable") =>
        \A t \in Appenders : TimesShown(t) = appenders[t].done

====
